---- MODULE Spec2Model ----
(***************************************************************************)
(* Function-boundary extraction engine of owizdom/ariana-interview:        *)
(*   gf_scanner.py     find_brace_block_end, find_ruby_end_line,           *)
(*                     infer_end_line, scan_zip_archive                    *)
(*   gf_extractors.py  _regex_functions, PythonFunctionVisitor, EXTRACTORS *)
(*   gf_client.py      fetch_top_repositories                              *)
(*   runner.py         _batch_ranges, _process_repositories                *)
(* A line is a tuple of one-character strings; a line sequence is what     *)
(* str.splitlines() returns.                                               *)
(***************************************************************************)
EXTENDS Integers, Sequences, FiniteSets, TLC

VARIABLES
    fn,          \* the function under execution
    pc,          \* its position: "loop", "done" (returned), "raised"
    lines,       \* list[str] argument
    start_line,  \* int argument
    i,           \* loop variable of range(start_line - 1, len(lines))
    k,           \* 1-based offset of the next character of lines[i] (for ch in line)
    depth,       \* depth counter
    seen_open,   \* find_brace_block_end: a "{" has been read
    result,      \* the value returned (meaningful when pc = "done")
    parsed,      \* extract_python_functions: how ast.parse(source) ends
    tree,        \* extract_python_functions: the syntax tree ast.parse returned
    stack,       \* NodeVisitor: the active visit() calls, innermost last
    scope,       \* PythonFunctionVisitor.scope
    functions,   \* PythonFunctionVisitor.functions
    patterns,    \* _regex_functions: list[re.Pattern] argument
    kind,        \* _regex_functions: kind argument
    line_no,     \* _regex_functions: enumerate(source.splitlines(), start=1)
    pat_no,      \* _regex_functions: 1-based position of `pattern` in patterns
    out,         \* _regex_functions: out
    archive,     \* scan_zip_archive: the entries top_dir.rglob("*") yields, in order
    collect_body,    \* scan_zip_archive: collect_body argument
    file_no,     \* scan_zip_archive: 1-based position of file_path in archive
    scan_pc,     \* scan_zip_archive: position ("loop", "extract", "hits", "infer", "done")
    extracted_funcs, \* scan_zip_archive: extracted_funcs
    hit_no,      \* scan_zip_archive: 1-based position of hit in extracted_funcs
    funcs,       \* scan_zip_archive: funcs
    extractors,  \* gf_extractors.EXTRACTORS, the module-level table
    cur,         \* the thread that runs; the variables above the table are its frame
    frames,      \* the frames of the threads (that of cur as of its last suspension)
    returned,    \* the calls that have returned: what was called, and the value
    total,       \* _batch_ranges: total
    batch_targets,   \* _batch_ranges: the targets argument (<<>>: None or [])
    chunk_size,  \* _batch_ranges: chunk_size
    targets,     \* _batch_ranges: targets, once defaulted
    target_no,   \* _batch_ranges: 1-based position of `target` in targets
    prev,        \* _batch_ranges: prev
    ranges,      \* _batch_ranges: ranges
    top_n,       \* fetch_top_repositories: top_n
    ranking,     \* the search API: how many repositories its ranking holds
    requested,   \* fetch_top_repositories: requested
    repos,       \* fetch_top_repositories: repos (a repository is its rank)
    page,        \* fetch_top_repositories: page
    per_page,    \* fetch_top_repositories: per_page
    total_count, \* fetch_top_repositories: total_count
    response,    \* fetch_top_repositories: response
    fetched,     \* fetch_top_repositories: the list returned
    requests,    \* fetch_top_repositories: how many times request_json was called
    first,       \* _process_repositories: start
    last,        \* _process_repositories: end
    workers,     \* _process_repositories: workers = max(1, int(args.workers))
    selected,    \* _process_repositories: selected
    outcome,     \* how _scan_repository ends for each repository
    offset,      \* _process_repositories: offset of enumerate(selected, start=start + 1)
    queue,       \* ThreadPoolExecutor: submitted calls no worker has taken yet
    running,     \* ThreadPoolExecutor: calls a worker thread is executing
    completed,   \* futures that are done and not yet yielded by as_completed
    scans,       \* the calls of _scan_repository made: (idx, repo) -> how many
    processed,   \* _process_repositories: processed
    function_count \* _process_repositories: function_count

resolverVars == <<lines, start_line, i, k, depth, seen_open, result>>

visitVars == <<parsed, tree, stack, scope, functions>>

regexVars == <<patterns, kind, line_no, pat_no, out>>

scanVars ==
    <<archive, collect_body, file_no, scan_pc, extracted_funcs, hit_no, funcs>>

moduleVars == <<extractors>>

threadVars == <<cur, frames, returned>>

batchVars == <<total, batch_targets, chunk_size, targets, target_no, prev, ranges>>

fetchVars ==
    <<top_n, ranking, requested, repos, page, per_page, total_count, response, fetched,
      requests>>

processVars ==
    <<first, last, workers, selected, outcome, offset, queue, running, completed, scans,
      processed, function_count>>

\* the state of runner.py and gf_client.py
runnerVars == <<batchVars, fetchVars, processVars>>

\* what a resolver call leaves alone
outsideResolver == <<visitVars, regexVars, scanVars, moduleVars, runnerVars, threadVars>>

\* what a run of the exact-syntax locator leaves alone
outsideVisit == <<resolverVars, regexVars, scanVars, moduleVars, runnerVars, threadVars>>

\* what a run of the pattern-based locator leaves alone (it reads lines)
outsideRegex ==
    <<start_line, i, k, depth, seen_open, result, visitVars, scanVars, moduleVars, runnerVars,
      threadVars>>

vars ==
    <<fn, pc, resolverVars, visitVars, regexVars, scanVars, moduleVars, runnerVars, threadVars>>

----------------------------------------------------------------------------
(* gf_extractors.EXTRACTORS as the module defines it *)

EXTRACTORS ==
    [ext \in {".py", ".pyi", ".js", ".jsx", ".ts", ".tsx", ".go", ".java", ".cs",
              ".rb", ".cpp", ".c", ".cc", ".cxx", ".h", ".hpp"} |->
        CASE ext \in {".py", ".pyi"} -> "extract_python_functions"
          [] ext \in {".js", ".jsx", ".ts", ".tsx"} -> "extract_js_functions"
          [] ext = ".go" -> "extract_go_functions"
          [] ext = ".rb" -> "extract_ruby_functions"
          [] OTHER -> "extract_java_like_functions"]

\* runner.py and gf_client.py at rest
\* _process_repositories is not running
IdleProcess ==
    /\ first = 0
    /\ last = 0
    /\ workers = 1
    /\ selected = <<>>
    /\ outcome = <<>>
    /\ offset = 1
    /\ queue = <<>>
    /\ running = {}
    /\ completed = {}
    /\ scans = <<>>
    /\ processed = 0
    /\ function_count = 0

IdleRunner ==
    /\ total = 0
    /\ batch_targets = <<>>
    /\ chunk_size = 0
    /\ targets = <<>>
    /\ target_no = 1
    /\ prev = 0
    /\ ranges = <<>>
    /\ top_n = 0
    /\ ranking = 0
    /\ requested = 0
    /\ repos = <<>>
    /\ page = 1
    /\ per_page = 0
    /\ total_count = 0
    /\ response = [total_count |-> 0, items |-> <<>>]
    /\ fetched = <<>>
    /\ requests = 0
    /\ IdleProcess

----------------------------------------------------------------------------
(* Bounds *)

\* longest line sequence handed to a resolver
MaxLines == 3

\* start_line ranges over -MaxBelow .. MaxLines + 1
MaxBelow == 1

----------------------------------------------------------------------------
(* Generic helpers *)

Min(S) == CHOOSE x \in S : \A y \in S : x <= y

SeqsUpTo(S, n) == UNION {[1..m -> S] : m \in 0..n}

\* Python list indexing lines[i]: a negative index counts from the end,
\* an index outside -len .. len-1 raises IndexError.
PyIndexOk(xs, idx) == (-Len(xs) <= idx) /\ (idx < Len(xs))

PyItem(xs, idx) == IF idx >= 0 THEN xs[idx + 1] ELSE xs[Len(xs) + idx + 1]

\* str.startswith
StartsWith(s, p) == Len(s) >= Len(p) /\ SubSeq(s, 1, Len(p)) = p

\* str.strip(): leading and trailing whitespace removed
IsSpace(c) == c \in {" ", "\t"}

RECURSIVE LStrip(_)
LStrip(s) == IF s # <<>> /\ IsSpace(Head(s)) THEN LStrip(Tail(s)) ELSE s

RECURSIVE RStrip(_)
RStrip(s) ==
    IF s # <<>> /\ IsSpace(s[Len(s)]) THEN RStrip(SubSeq(s, 1, Len(s) - 1)) ELSE s

Strip(s) == RStrip(LStrip(s))

----------------------------------------------------------------------------
(* Inputs *)

\* lines over the characters that matter to the brace-depth scan
BraceLines ==
    { <<>>, <<"x">>, <<"{">>, <<"}">>,
      <<"x", "{">>, <<"}", "x">>, <<"{", "}">>, <<"}", "{">>,
      <<"{", "{">>, <<"}", "}">> }

\* lines that matter to the keyword-depth scan
RubyLines ==
    { <<>>, <<" ">>,
      <<"#", "e", "n", "d">>,
      <<"d", "e", "f", " ", "f">>,
      <<" ", "d", "e", "f", " ", "f">>,
      <<"d", "e", "f", "\t", "f">>,
      <<"e", "n", "d">>,
      <<" ", "e", "n", "d", " ">>,
      <<"e", "n", "d", "x">>,
      <<"x">> }

StartLines == (0 - MaxBelow)..(MaxLines + 1)

\* no syntax tree (the run is not one of the exact-syntax locator)
NoTree == [parent |-> <<>>, kind |-> <<>>, name |-> <<>>, has_end |-> FALSE]

----------------------------------------------------------------------------
(* find_brace_block_end *)

\* ch == "{"
BraceOpens(ch) == ch = "{"

\* mutant: every "}" decrements, whatever the depth
BraceClosesAtAnyDepth(ch, d) == ch = "}"

\* ch == "}" and depth > 0
BraceCloses(ch, d) == ch = "}" /\ d > 0

\* mutant: the 0-based index returned
BraceReturnLineOffByOne(idx) == idx

\* return i + 1
BraceReturnLine(idx) == idx + 1

\* mutant: the opened flag ignored, start_line returned
BraceEofResultAlwaysStart(ls, sl, so) == sl

\* mutant: the opened flag ignored, len(lines) returned
BraceEofResultAlwaysLast(ls, sl, so) == Len(ls)

\* return len(lines) if seen_open else start_line
BraceEofResult(ls, sl, so) == IF so THEN Len(ls) ELSE sl

BraceRaise ==
    /\ fn = "find_brace_block_end" /\ pc = "loop"
    /\ i < Len(lines) /\ ~PyIndexOk(lines, i)
    /\ pc' = "raised"
    /\ UNCHANGED <<fn, lines, start_line, i, k, depth, seen_open, result>>
    /\ UNCHANGED outsideResolver

BraceOpen ==
    /\ fn = "find_brace_block_end" /\ pc = "loop"
    /\ i < Len(lines) /\ PyIndexOk(lines, i)
    /\ k <= Len(PyItem(lines, i))
    /\ BraceOpens(PyItem(lines, i)[k])
    /\ depth' = depth + 1
    /\ seen_open' = TRUE
    /\ k' = k + 1
    /\ UNCHANGED <<fn, pc, lines, start_line, i, result>>
    /\ UNCHANGED outsideResolver

BraceClose ==
    /\ fn = "find_brace_block_end" /\ pc = "loop"
    /\ i < Len(lines) /\ PyIndexOk(lines, i)
    /\ k <= Len(PyItem(lines, i))
    /\ ~BraceOpens(PyItem(lines, i)[k])
    /\ BraceCloses(PyItem(lines, i)[k], depth)
    /\ depth' = depth - 1
    /\ IF depth' = 0
       THEN pc' = "done" /\ result' = BraceReturnLine(i) /\ k' = k
       ELSE pc' = pc /\ result' = result /\ k' = k + 1
    /\ UNCHANGED <<fn, lines, start_line, i, seen_open>>
    /\ UNCHANGED outsideResolver

BraceOther ==
    /\ fn = "find_brace_block_end" /\ pc = "loop"
    /\ i < Len(lines) /\ PyIndexOk(lines, i)
    /\ k <= Len(PyItem(lines, i))
    /\ ~BraceOpens(PyItem(lines, i)[k])
    /\ ~BraceCloses(PyItem(lines, i)[k], depth)
    /\ k' = k + 1
    /\ UNCHANGED <<fn, pc, lines, start_line, i, depth, seen_open, result>>
    /\ UNCHANGED outsideResolver

BraceNextLine ==
    /\ fn = "find_brace_block_end" /\ pc = "loop"
    /\ i < Len(lines) /\ PyIndexOk(lines, i)
    /\ k > Len(PyItem(lines, i))
    /\ i' = i + 1
    /\ k' = 1
    /\ UNCHANGED <<fn, pc, lines, start_line, depth, seen_open, result>>
    /\ UNCHANGED outsideResolver

BraceEof ==
    /\ fn = "find_brace_block_end" /\ pc = "loop"
    /\ i >= Len(lines)
    /\ pc' = "done"
    /\ result' = BraceEofResult(lines, start_line, seen_open)
    /\ UNCHANGED <<fn, lines, start_line, i, k, depth, seen_open>>
    /\ UNCHANGED outsideResolver

----------------------------------------------------------------------------
(* find_ruby_end_line *)

\* not stripped or stripped.startswith("#")
RubySkips(stripped) == stripped = <<>> \/ StartsWith(stripped, <<"#">>)

\* stripped.startswith("def ")
RubyOpens(stripped) == StartsWith(stripped, <<"d", "e", "f", " ">>)

\* stripped == "end" or stripped.startswith("end")
RubyCloses(stripped) ==
    stripped = <<"e", "n", "d">> \/ StartsWith(stripped, <<"e", "n", "d">>)

\* return i + 1
RubyReturnLine(idx) == idx + 1

\* mutant: start_line returned at the end of the file
RubyEofResultStart(ls, sl) == sl

\* mutant: one past the last line returned at the end of the file
RubyEofResultPastEnd(ls, sl) == Len(ls) + 1

\* return len(lines)
RubyEofResult(ls, sl) == Len(ls)

RubyRaise ==
    /\ fn = "find_ruby_end_line" /\ pc = "loop"
    /\ i < Len(lines) /\ ~PyIndexOk(lines, i)
    /\ pc' = "raised"
    /\ UNCHANGED <<fn, lines, start_line, i, k, depth, seen_open, result>>
    /\ UNCHANGED outsideResolver

RubySkip ==
    /\ fn = "find_ruby_end_line" /\ pc = "loop"
    /\ i < Len(lines) /\ PyIndexOk(lines, i)
    /\ RubySkips(Strip(PyItem(lines, i)))
    /\ i' = i + 1
    /\ UNCHANGED <<fn, pc, lines, start_line, k, depth, seen_open, result>>
    /\ UNCHANGED outsideResolver

RubyLine ==
    /\ fn = "find_ruby_end_line" /\ pc = "loop"
    /\ i < Len(lines) /\ PyIndexOk(lines, i)
    /\ LET stripped == Strip(PyItem(lines, i))
           d1 == IF RubyOpens(stripped) THEN depth + 1 ELSE depth
       IN  /\ ~RubySkips(stripped)
           /\ IF RubyCloses(stripped) /\ d1 > 0
              THEN /\ depth' = d1 - 1
                   /\ IF depth' = 0
                      THEN pc' = "done" /\ result' = RubyReturnLine(i) /\ i' = i
                      ELSE pc' = pc /\ result' = result /\ i' = i + 1
              ELSE /\ depth' = d1
                   /\ pc' = pc /\ result' = result /\ i' = i + 1
    /\ UNCHANGED <<fn, lines, start_line, k, seen_open>>
    /\ UNCHANGED outsideResolver

RubyEof ==
    /\ fn = "find_ruby_end_line" /\ pc = "loop"
    /\ i >= Len(lines)
    /\ pc' = "done"
    /\ result' = RubyEofResult(lines, start_line)
    /\ UNCHANGED <<fn, lines, start_line, i, k, depth, seen_open>>
    /\ UNCHANGED outsideResolver

----------------------------------------------------------------------------
(* One call of a resolver on arbitrary arguments *)

Init ==
    /\ fn \in {"find_brace_block_end", "find_ruby_end_line"}
    /\ lines \in SeqsUpTo(IF fn = "find_brace_block_end" THEN BraceLines ELSE RubyLines,
                          MaxLines)
    /\ start_line \in StartLines
    /\ pc = "loop"
    /\ i = start_line - 1
    /\ k = 1
    /\ depth = 0
    /\ seen_open = FALSE
    /\ result = 0
    /\ parsed = "ok"
    /\ tree = NoTree
    /\ stack = <<>>
    /\ scope = <<>>
    /\ functions = <<>>
    /\ patterns = <<>>
    /\ kind = ""
    /\ line_no = 1
    /\ pat_no = 1
    /\ out = <<>>
    /\ archive = <<>>
    /\ collect_body = FALSE
    /\ file_no = 1
    /\ scan_pc = "idle"
    /\ extracted_funcs = <<>>
    /\ hit_no = 1
    /\ funcs = <<>>
    /\ extractors = EXTRACTORS
    /\ IdleRunner
    /\ cur = 1
    /\ frames = <<>>
    /\ returned = <<>>

Next ==
    \/ BraceRaise
    \/ BraceOpen
    \/ BraceClose
    \/ BraceOther
    \/ BraceNextLine
    \/ BraceEof
    \/ RubyRaise
    \/ RubySkip
    \/ RubyLine
    \/ RubyEof

Spec == Init /\ [][Next]_vars

----------------------------------------------------------------------------
(* Reference reading of the brace-depth contract: the characters of the     *)
(* lines start_line .. len(lines), each with the number of its line.        *)

LineCells(ls, n) == [m \in 1..Len(ls[n]) |-> [ch |-> ls[n][m], line |-> n]]

RECURSIVE StreamFrom(_, _)
StreamFrom(ls, n) ==
    IF n > Len(ls) THEN <<>> ELSE LineCells(ls, n) \o StreamFrom(ls, n + 1)

CountCh(st, a, b, c) == Cardinality({m \in a..b : st[m].ch = c})

HasOpen(st) == \E m \in 1..Len(st) : st[m].ch = "{"

FirstOpen(st) == Min({m \in 1..Len(st) : st[m].ch = "{"})

\* positions at which the opened depth is back at zero
ClosedAt(st) ==
    IF HasOpen(st)
    THEN {q \in FirstOpen(st)..Len(st) :
            CountCh(st, FirstOpen(st), q, "{") = CountCh(st, FirstOpen(st), q, "}")}
    ELSE {}

BraceDone == fn = "find_brace_block_end" /\ pc = "done"

RubyDone == fn = "find_ruby_end_line" /\ pc = "done"

StartInRange == 1 <= start_line /\ start_line <= Len(lines)

\* the characters find_brace_block_end has read so far (start_line >= 1): the
\* lines start_line .. i and the first k - 1 characters of line i + 1
BraceSeen ==
    LET whole == StreamFrom(SubSeq(lines, 1, Min({i, Len(lines)})), start_line)
    IN  IF i < Len(lines) THEN whole \o SubSeq(LineCells(lines, i + 1), 1, k - 1)
        ELSE whole

BraceScanning == fn = "find_brace_block_end" /\ pc = "loop" /\ start_line >= 1

\* C18 as stated: at every point of the scan before it returns, depth is the
\* number of "{" minus the number of "}" read so far.
BraceDepthIsBalance ==
    BraceScanning =>
        depth = CountCh(BraceSeen, 1, Len(BraceSeen), "{") -
                CountCh(BraceSeen, 1, Len(BraceSeen), "}")

\* C18, amended: a "}" read at depth 0 (before the first "{") is passed over;
\* at every point of the scan before it returns, depth is the number of "{"
\* minus the number of "}" read from the first "{" on (0 when no "{" has been
\* read), it is never negative, and seen_open tells whether a "{" has been read.
BraceDepthIsBalanceSinceOpen ==
    BraceScanning =>
        LET st == BraceSeen
        IN  /\ depth >= 0
            /\ seen_open <=> HasOpen(st)
            /\ depth = IF HasOpen(st)
                       THEN CountCh(st, FirstOpen(st), Len(st), "{") -
                            CountCh(st, FirstOpen(st), Len(st), "}")
                       ELSE 0

\* "}{" read from line 1: one "{" and one "}" have been read and depth is 1
BraceDepthIsBalanceSinceOpenWitness ==
    /\ BraceScanning
    /\ start_line = 1
    /\ lines = << <<"}", "{">> >>
    /\ i = 0
    /\ k = 3
    /\ depth = 1
    /\ CountCh(BraceSeen, 1, Len(BraceSeen), "{") = 1
    /\ CountCh(BraceSeen, 1, Len(BraceSeen), "}") = 1

\* C1: find_brace_block_end called with 1 <= start_line <= len(lines) never
\* raises, and when the depth, once opened, returns to zero, it returns the
\* number of the first line on which that happens.
BraceEndIsFirstClose ==
    (fn = "find_brace_block_end" /\ StartInRange) =>
        /\ pc # "raised"
        /\ LET st == StreamFrom(lines, start_line)
           IN  (pc = "done" /\ ClosedAt(st) # {}) =>
                   result = st[Min(ClosedAt(st))].line

\* the spec's example: "func f() {", "  x()", "}" with start_line 1 gives 3
BraceEndIsFirstCloseWitness ==
    /\ BraceDone
    /\ lines = << <<"x", "{">>, <<"x">>, <<"}">> >>
    /\ start_line = 1
    /\ result = 3

\* C2: when a "{" is read from start_line on and the depth never returns to
\* zero, find_brace_block_end returns len(lines).
BraceUnterminatedIsLastLine ==
    (BraceDone /\ StartInRange) =>
        LET st == StreamFrom(lines, start_line)
        IN  (HasOpen(st) /\ ClosedAt(st) = {}) => result = Len(lines)

\* the spec's example: "func f() {", "  x()" with start_line 1 gives 2
BraceUnterminatedWitness ==
    /\ BraceDone
    /\ lines = << <<"x", "{">>, <<"x">> >>
    /\ start_line = 1
    /\ depth = 1
    /\ result = 2

\* C3: when no "{" occurs from start_line to the end of the file,
\* find_brace_block_end returns start_line, whatever "}" occur there.
BraceNeverOpenedIsStart ==
    BraceDone =>
        LET st == StreamFrom(lines, IF start_line < 1 THEN 1 ELSE start_line)
        IN  ~HasOpen(st) => result = start_line

\* a "}" but no "{" after start_line, which is not the last line
BraceNeverOpenedWitness ==
    /\ BraceDone
    /\ start_line = 2
    /\ Len(lines) = 3
    /\ LET st == StreamFrom(lines, start_line)
       IN  ~HasOpen(st) /\ \E m \in 1..Len(st) : st[m].ch = "}"
    /\ result = 2

----------------------------------------------------------------------------
(* Reference reading of the keyword-depth contract *)

\* the trimmed line begins with the block-opening keyword
RefOpens(stripped) == StartsWith(stripped, <<"d", "e", "f">>)

\* the trimmed line is, or begins with, the block-closing keyword
RefCloses(stripped) == StartsWith(stripped, <<"e", "n", "d">>)

\* the number of the first line from n on at which a closing line brings the
\* depth d back to zero, 0 when there is none; a closing line met at depth
\* zero is passed over
RECURSIVE RefRubyEnd(_, _, _)
RefRubyEnd(ls, n, d) ==
    IF n > Len(ls) THEN 0
    ELSE LET stripped == Strip(ls[n])
             d1 == IF RefOpens(stripped) THEN d + 1 ELSE d
         IN  IF stripped = <<>> \/ Head(stripped) = "#"
             THEN RefRubyEnd(ls, n + 1, d)
             ELSE IF RefCloses(stripped) /\ d1 > 0
                  THEN IF d1 = 1 THEN n ELSE RefRubyEnd(ls, n + 1, d1 - 1)
                  ELSE RefRubyEnd(ls, n + 1, d1)

\* C4: find_ruby_end_line counts every non-blank, non-comment line that
\* begins with "def" as an opening and every one that is or begins with "end"
\* as a closing, and returns the first line on which a closing brings the
\* depth back to zero.
RubyEndIsFirstClose ==
    (RubyDone /\ StartInRange /\ RefRubyEnd(lines, start_line, 0) # 0) =>
        result = RefRubyEnd(lines, start_line, 0)

\* C5: when the scan of find_ruby_end_line reaches the end of the file (the
\* loop runs out) without a closing line having brought the depth back to
\* zero, it returns len(lines).
RubyUnterminatedIsLastLine ==
    (RubyDone /\ i >= Len(lines)) => result = Len(lines)

\* an opened "def" never closed, in a file of two lines or more
RubyUnterminatedWitness ==
    /\ RubyDone
    /\ start_line = 1
    /\ Len(lines) >= 2
    /\ i >= Len(lines)
    /\ depth > 0
    /\ result = Len(lines)

\* C7: each resolver returns end_line >= start_line for every start_line >= 1,
\* also one past the last line.
ResolverEndNotBeforeStart ==
    (pc = "done" /\ start_line >= 1) => result >= start_line

\* C8: neither resolver raises, whatever the line sequence and start_line.
ResolverNeverRaises == pc # "raised"

----------------------------------------------------------------------------
(* extract_python_functions: PythonFunctionVisitor over a syntax tree.      *)
(* The nodes of a tree are numbered 1..n in source order (pre-order), node  *)
(* 0 is the Module; parent[c] < c. Every node stands on a line of its own,  *)
(* so node c has lineno c and its span ends on the line of its last         *)
(* descendant. has_end tells whether the nodes carry end_lineno.            *)

\* most nodes below the Module
MaxNodes == 3

NodeKinds == {"ClassDef", "FunctionDef", "AsyncFunctionDef", "Other"}

NodeNames == { <<"A">>, <<"f">> }

Max(S) == CHOOSE x \in S : \A y \in S : x >= y

RECURSIVE AncestorsOrSelf(_, _)
AncestorsOrSelf(par, c) ==
    IF c = 0 THEN {0} ELSE {c} \cup AncestorsOrSelf(par, par[c])

IsPreorder(par) ==
    /\ \A c \in 1..Len(par) : par[c] < c
    /\ \A c \in 2..Len(par) : par[c] \in AncestorsOrSelf(par, c - 1)

\* node.lineno
Lineno(t, c) == c

\* node.end_lineno; 0 stands for None or a missing attribute
EndLineno(t, c) ==
    IF t.has_end
    THEN Max({d \in c..Len(t.parent) : c \in AncestorsOrSelf(t.parent, d)})
    ELSE 0

\* ast.iter_child_nodes: the first child of p not before node c, 0 when none
NextChild(t, p, c) ==
    LET cs == {d \in c..Len(t.parent) : t.parent[d] = p}
    IN  IF cs = {} THEN 0 ELSE Min(cs)

\* ".".join(parts)
RECURSIVE Join(_)
Join(parts) ==
    IF parts = <<>> THEN <<>>
    ELSE IF Len(parts) = 1 THEN parts[1]
    ELSE parts[1] \o <<".">> \o Join(Tail(parts))

\* mutant: the scope left out of the name
VisitorNameBare(sc, nm) == nm

\* PythonFunctionVisitor._name
VisitorName(sc, nm) == IF sc # <<>> THEN Join(Append(sc, nm)) ELSE nm

\* getattr(node, "end_lineno", start) or start
HitEnd(end_lineno, start) == IF end_lineno = 0 THEN start ELSE end_lineno

FunctionHit(nm, start, end, kd) ==
    [name |-> nm, start_line |-> start, end_line |-> end, kind |-> kd]

\* the hit visit_FunctionDef / visit_AsyncFunctionDef appends for node c
NodeHit(t, sc, c, kd) ==
    FunctionHit(VisitorName(sc, t.name[c]), Lineno(t, c),
                HitEnd(EndLineno(t, c), Lineno(t, c)), kd)

\* self.scope.pop()
ScopePop(sc) == SubSeq(sc, 1, Len(sc) - 1)

Visiting == fn = "extract_python_functions" /\ pc = "visit" /\ stack # <<>>

Top == stack[Len(stack)]

\* generic_visit of the innermost node calls visit(c) on its next child c
Enter(c) ==
    Append([stack EXCEPT ![Len(stack)].next = c + 1], [node |-> c, next |-> c + 1])

VisitClassDef ==
    /\ Visiting
    /\ LET c == NextChild(tree, Top.node, Top.next)
       IN  /\ c # 0
           /\ tree.kind[c] = "ClassDef"
           /\ scope' = Append(scope, tree.name[c])
           /\ stack' = Enter(c)
    /\ UNCHANGED <<fn, pc, parsed, tree, functions>>
    /\ UNCHANGED outsideVisit

\* mutant: the hit put in front of the earlier hits
VisitFunctionDefPrepends ==
    /\ Visiting
    /\ LET c == NextChild(tree, Top.node, Top.next)
       IN  /\ c # 0
           /\ tree.kind[c] = "FunctionDef"
           /\ functions' = <<NodeHit(tree, scope, c, "python_function")>> \o functions
           /\ stack' = Enter(c)
    /\ UNCHANGED <<fn, pc, parsed, tree, scope>>
    /\ UNCHANGED outsideVisit

VisitFunctionDef ==
    /\ Visiting
    /\ LET c == NextChild(tree, Top.node, Top.next)
       IN  /\ c # 0
           /\ tree.kind[c] = "FunctionDef"
           /\ functions' = Append(functions, NodeHit(tree, scope, c, "python_function"))
           /\ stack' = Enter(c)
    /\ UNCHANGED <<fn, pc, parsed, tree, scope>>
    /\ UNCHANGED outsideVisit

VisitAsyncFunctionDef ==
    /\ Visiting
    /\ LET c == NextChild(tree, Top.node, Top.next)
       IN  /\ c # 0
           /\ tree.kind[c] = "AsyncFunctionDef"
           /\ functions' =
                  Append(functions, NodeHit(tree, scope, c, "python_async_function"))
           /\ stack' = Enter(c)
    /\ UNCHANGED <<fn, pc, parsed, tree, scope>>
    /\ UNCHANGED outsideVisit

\* any other node: NodeVisitor.visit falls back to generic_visit
VisitOther ==
    /\ Visiting
    /\ LET c == NextChild(tree, Top.node, Top.next)
       IN  /\ c # 0
           /\ tree.kind[c] = "Other"
           /\ stack' = Enter(c)
    /\ UNCHANGED <<fn, pc, parsed, tree, scope, functions>>
    /\ UNCHANGED outsideVisit

\* generic_visit(node) of a ClassDef is over: scope.pop(), visit_ClassDef returns
LeaveClassDef ==
    /\ Visiting
    /\ NextChild(tree, Top.node, Top.next) = 0
    /\ Top.node # 0
    /\ tree.kind[Top.node] = "ClassDef"
    /\ scope' = ScopePop(scope)
    /\ stack' = SubSeq(stack, 1, Len(stack) - 1)
    /\ UNCHANGED <<fn, pc, parsed, tree, functions>>
    /\ UNCHANGED outsideVisit

\* generic_visit(node) of any other node is over; leaving the Module ends
\* visitor.visit(tree) and extract_python_functions returns visitor.functions
Leave ==
    /\ Visiting
    /\ NextChild(tree, Top.node, Top.next) = 0
    /\ Top.node # 0 => tree.kind[Top.node] # "ClassDef"
    /\ stack' = SubSeq(stack, 1, Len(stack) - 1)
    /\ pc' = IF Top.node = 0 THEN "done" ELSE pc
    /\ UNCHANGED <<fn, parsed, tree, scope, functions>>
    /\ UNCHANGED outsideVisit

\* ast.parse(source) returns a tree, raises SyntaxError, or raises another
\* exception (RecursionError, MemoryError: the parser or the construction of
\* the tree runs out of stack on a deeply nested source)
ParseOutcomes == {"ok", "SyntaxError", "RecursionError"}

AtParse == fn = "extract_python_functions" /\ pc = "parse"

\* tree = ast.parse(source); visitor = PythonFunctionVisitor(); visitor.visit(tree)
ParseOk ==
    /\ AtParse
    /\ parsed = "ok"
    /\ pc' = "visit"
    /\ stack' = << [node |-> 0, next |-> 1] >>
    /\ scope' = <<>>
    /\ functions' = <<>>
    /\ UNCHANGED <<fn, parsed, tree>>
    /\ UNCHANGED outsideVisit

\* except SyntaxError: return []
ParseSyntaxError ==
    /\ AtParse
    /\ parsed = "SyntaxError"
    /\ pc' = "done"
    /\ functions' = <<>>
    /\ UNCHANGED <<fn, parsed, tree, stack, scope>>
    /\ UNCHANGED outsideVisit

\* any other exception of ast.parse leaves extract_python_functions
ParseRaises ==
    /\ AtParse
    /\ parsed \notin {"ok", "SyntaxError"}
    /\ pc' = "raised"
    /\ UNCHANGED <<fn, parsed, tree, stack, scope, functions>>
    /\ UNCHANGED outsideVisit

InitVisit ==
    /\ fn = "extract_python_functions"
    /\ pc = "parse"
    /\ parsed \in ParseOutcomes
    /\ IF parsed = "ok"
       THEN \E n \in 1..MaxNodes :
               \E par \in [1..n -> 0..(n - 1)] :
                   /\ IsPreorder(par)
                   /\ \E kd \in [1..n -> NodeKinds], nm \in [1..n -> NodeNames],
                         e \in BOOLEAN :
                          tree = [parent |-> par, kind |-> kd, name |-> nm,
                                  has_end |-> e]
       ELSE tree = NoTree
    /\ stack = <<>>
    /\ scope = <<>>
    /\ functions = <<>>
    /\ lines = <<>>
    /\ start_line = 1
    /\ i = 0
    /\ k = 1
    /\ depth = 0
    /\ seen_open = FALSE
    /\ result = 0
    /\ patterns = <<>>
    /\ kind = ""
    /\ line_no = 1
    /\ pat_no = 1
    /\ out = <<>>
    /\ archive = <<>>
    /\ collect_body = FALSE
    /\ file_no = 1
    /\ scan_pc = "idle"
    /\ extracted_funcs = <<>>
    /\ hit_no = 1
    /\ funcs = <<>>
    /\ extractors = EXTRACTORS
    /\ IdleRunner
    /\ cur = 1
    /\ frames = <<>>
    /\ returned = <<>>

NextVisit ==
    \/ ParseOk
    \/ ParseSyntaxError
    \/ ParseRaises
    \/ VisitClassDef
    \/ VisitFunctionDef
    \/ VisitAsyncFunctionDef
    \/ VisitOther
    \/ LeaveClassDef
    \/ Leave

SpecVisit == InitVisit /\ [][NextVisit]_vars

\* the names of the ClassDef nodes among c and its ancestors, outermost first
RECURSIVE ClassPath(_, _)
ClassPath(t, c) ==
    IF c = 0 THEN <<>>
    ELSE ClassPath(t, t.parent[c]) \o
         (IF t.kind[c] = "ClassDef" THEN <<t.name[c]>> ELSE <<>>)

\* the ClassDef names of the nodes of the active visit() calls, outermost first
RECURSIVE ClassesOnStack(_, _)
ClassesOnStack(t, st) ==
    IF st = <<>> THEN <<>>
    ELSE (IF Head(st).node # 0 /\ t.kind[Head(st).node] = "ClassDef"
          THEN <<t.name[Head(st).node]>> ELSE <<>>) \o ClassesOnStack(t, Tail(st))

IsFunctionNode(t, c) == t.kind[c] \in {"FunctionDef", "AsyncFunctionDef"}

\* C10: every hit of PythonFunctionVisitor is named by the names of all the
\* classes enclosing its node, outermost first, joined by "." and followed by
\* the function's own name; the scope stack holds the classes being visited,
\* and when the traversal ends it is empty and every function node has a hit.
QualifiedNameIsClassPath ==
    fn = "extract_python_functions" =>
        /\ \A h \in 1..Len(functions) :
               LET c == functions[h].start_line
               IN  /\ IsFunctionNode(tree, c)
                   /\ functions[h].name =
                          Join(Append(ClassPath(tree, tree.parent[c]), tree.name[c]))
        /\ scope = ClassesOnStack(tree, stack)
        /\ pc = "done" =>
               /\ scope = <<>>
               /\ {functions[h].start_line : h \in 1..Len(functions)} =
                      {c \in 1..Len(tree.parent) : IsFunctionNode(tree, c)}

\* class A: def f: async def f -- both hits are named "A.f" (the enclosing
\* function is no scope), and the traversal has ended
QualifiedNameWitness ==
    /\ fn = "extract_python_functions"
    /\ pc = "done"
    /\ tree.kind = <<"ClassDef", "FunctionDef", "AsyncFunctionDef">>
    /\ tree.parent = <<0, 1, 2>>
    /\ tree.name = << <<"A">>, <<"f">>, <<"f">> >>
    /\ Len(functions) = 2
    /\ functions[1].name = <<"A", ".", "f">>
    /\ functions[2].name = <<"A", ".", "f">>
    /\ functions[2].kind = "python_async_function"
    /\ scope = <<>>

\* the lowest node that is an ancestor (or self) of both x and y
CommonAncestor(par, x, y) ==
    Max(AncestorsOrSelf(par, x) \cap AncestorsOrSelf(par, y))

\* the child of p on the path down to d
ChildToward(par, p, d) ==
    CHOOSE c \in AncestorsOrSelf(par, d) : c # 0 /\ par[c] = p

\* x comes before y in the pre-order of the tree: x encloses y, or they lie in
\* disjoint subtrees and that of x comes first among the children of their
\* lowest common ancestor
BeforeInPreorder(par, x, y) ==
    /\ x # y
    /\ y \notin AncestorsOrSelf(par, x)
    /\ \/ x \in AncestorsOrSelf(par, y)
       \/ LET p == CommonAncestor(par, x, y)
          IN  ChildToward(par, p, x) < ChildToward(par, p, y)

\* C16: the hits of extract_python_functions stand in pre-order of the syntax
\* tree: the hit of a function precedes the hits of the functions nested in it,
\* and hits of disjoint subtrees follow the order of the subtrees.
HitsInPreorder ==
    fn = "extract_python_functions" =>
        \A a \in 1..Len(functions) : \A b \in 1..Len(functions) :
            a < b => BeforeInPreorder(tree.parent, functions[a].start_line,
                                      functions[b].start_line)

\* def f: (def f) followed by async def f: the three hits are those of the
\* outer function, the function nested in it, and the later sibling
HitsInPreorderWitness ==
    /\ fn = "extract_python_functions"
    /\ pc = "done"
    /\ tree.parent = <<0, 1, 0>>
    /\ tree.kind = <<"FunctionDef", "FunctionDef", "AsyncFunctionDef">>
    /\ Len(functions) = 3
    /\ functions[1].start_line = 1
    /\ functions[2].start_line = 2
    /\ functions[3].start_line = 3
    /\ functions[3].kind = "python_async_function"

\* C11: for every source text that does not parse, extract_python_functions
\* returns the empty sequence and raises nothing to its caller.
PythonFailsClosed ==
    (fn = "extract_python_functions" /\ parsed # "ok") =>
        /\ pc # "raised"
        /\ pc = "done" => functions = <<>>

----------------------------------------------------------------------------
(* re: the patterns of gf_extractors.py as syntax trees, and the           *)
(* backtracking search of pattern.search(line). A match state is the number *)
(* of characters consumed (pos) and the text of the group "name" (cap);     *)
(* Match gives the match states of a pattern in the order the backtracking  *)
(* matcher tries them, so the first one is the match re reports.            *)

Lower ==
    {"a", "b", "c", "d", "e", "f", "g", "h", "i", "j", "k", "l", "m",
     "n", "o", "p", "q", "r", "s", "t", "u", "v", "w", "x", "y", "z"}

Upper ==
    {"A", "B", "C", "D", "E", "F", "G", "H", "I", "J", "K", "L", "M",
     "N", "O", "P", "Q", "R", "S", "T", "U", "V", "W", "X", "Y", "Z"}

Digit == {"0", "1", "2", "3", "4", "5", "6", "7", "8", "9"}

\* [...] and [^...]
Chr(S) == [t |-> "set", chars |-> S, neg |-> FALSE]

NotChr(S) == [t |-> "set", chars |-> S, neg |-> TRUE]

\* ^
Bol == [t |-> "bol"]

Cat(rs) == [t |-> "cat", parts |-> rs]

Alt(rs) == [t |-> "alt", parts |-> rs]

\* r? r* r+ (greedy)
Opt(r) == [t |-> "opt", sub |-> r]

Star(r) == [t |-> "star", sub |-> r]

Plus(r) == [t |-> "plus", sub |-> r]

\* (?P<name>r)
Group(r) == [t |-> "group", sub |-> r]

\* a literal word
Lit(w) == Cat([n \in 1..Len(w) |-> Chr({w[n]})])

\* \s and \w on the characters of the model
WS == Chr({" ", "\t"})

WordCh == Lower \cup Upper \cup Digit \cup {"_"}

RECURSIVE Match(_, _, _)
RECURSIVE MatchAll(_, _, _)
RECURSIVE MatchSeq(_, _, _)
RECURSIVE MatchAlt(_, _, _)

\* the match states of r on line s from state st, in backtracking order
Match(r, s, st) ==
    CASE r.t = "set" ->
           IF st.pos < Len(s) /\ ((s[st.pos + 1] \in r.chars) # r.neg)
           THEN << [pos |-> st.pos + 1, cap |-> st.cap] >>
           ELSE <<>>
      [] r.t = "bol" -> IF st.pos = 0 THEN <<st>> ELSE <<>>
      [] r.t = "cat" -> MatchSeq(r.parts, s, <<st>>)
      [] r.t = "alt" -> MatchAlt(r.parts, s, st)
      [] r.t = "opt" -> Match(r.sub, s, st) \o <<st>>
      [] r.t = "star" ->
           LET once == Match(r.sub, s, st)
               more == SelectSeq(once, LAMBDA q : q.pos > st.pos)
           IN  MatchAll(r, s, more) \o <<st>>
      [] r.t = "plus" -> MatchAll(Star(r.sub), s, Match(r.sub, s, st))
      [] r.t = "group" ->
           LET inner == Match(r.sub, s, st)
           IN  [n \in 1..Len(inner) |->
                   [pos |-> inner[n].pos,
                    cap |-> SubSeq(s, st.pos + 1, inner[n].pos)]]

\* r tried from each of the states sts in turn
MatchAll(r, s, sts) ==
    IF sts = <<>> THEN <<>>
    ELSE Match(r, s, Head(sts)) \o MatchAll(r, s, Tail(sts))

\* the patterns rs one after the other
MatchSeq(rs, s, sts) ==
    IF rs = <<>> THEN sts
    ELSE MatchSeq(Tail(rs), s, MatchAll(Head(rs), s, sts))

\* the alternatives rs, leftmost first
MatchAlt(rs, s, st) ==
    IF rs = <<>> THEN <<>>
    ELSE Match(Head(rs), s, st) \o MatchAlt(Tail(rs), s, st)

NoMatch == [matched |-> FALSE, name |-> <<>>]

\* pattern.search(line): the leftmost start at which the pattern matches;
\* name is match.group("name")
RECURSIVE SearchFrom(_, _, _)
SearchFrom(r, s, from) ==
    IF from > Len(s) THEN NoMatch
    ELSE LET ms == Match(r, s, [pos |-> from, cap |-> <<>>])
         IN  IF ms # <<>> THEN [matched |-> TRUE, name |-> ms[1].cap]
             ELSE SearchFrom(r, s, from + 1)

Search(r, s) == SearchFrom(r, s, 0)

JsIdent == Cat(<<Chr(Lower \cup Upper \cup {"_", "$"}), Star(Chr(WordCh \cup {"$"}))>>)

Ident == Cat(<<Chr(Lower \cup Upper \cup {"_"}), Star(Chr(WordCh))>>)

\* ^\s*(?:export\s+)?function\s+(?P<name>[A-Za-z_$][\w$]*)\s*\(
JsPattern1 ==
    Cat(<<Bol, Star(WS), Opt(Cat(<<Lit(<<"e", "x", "p", "o", "r", "t">>), Plus(WS)>>)), Lit(<<"f", "u", "n", "c", "t", "i", "o", "n">>),
          Plus(WS), Group(JsIdent), Star(WS), Lit(<<"(">>)>>)

\* ^\s*(?:const|let|var)\s+(?P<name>[A-Za-z_$][\w$]*)\s*=\s*(?:async\s+)?\(
JsPattern2 ==
    Cat(<<Bol, Star(WS), Alt(<<Lit(<<"c", "o", "n", "s", "t">>), Lit(<<"l", "e", "t">>), Lit(<<"v", "a", "r">>)>>), Plus(WS),
          Group(JsIdent), Star(WS), Lit(<<"=">>), Star(WS),
          Opt(Cat(<<Lit(<<"a", "s", "y", "n", "c">>), Plus(WS)>>)), Lit(<<"(">>)>>)

\* ^\s*(?P<name>[A-Za-z_$][\w$]*)\s*=\s*(?:async\s+)?\([^\)]*\)\s*=>
JsPattern3 ==
    Cat(<<Bol, Star(WS), Group(JsIdent), Star(WS), Lit(<<"=">>), Star(WS),
          Opt(Cat(<<Lit(<<"a", "s", "y", "n", "c">>), Plus(WS)>>)), Lit(<<"(">>), Star(NotChr({")"})),
          Lit(<<")">>), Star(WS), Lit(<<"=", ">">>)>>)

\* ^\s*(?:async\s+)?(?P<name>[A-Za-z_$][\w$]*)\s*\([^\)]*\)\s*\{
JsPattern4 ==
    Cat(<<Bol, Star(WS), Opt(Cat(<<Lit(<<"a", "s", "y", "n", "c">>), Plus(WS)>>)), Group(JsIdent),
          Star(WS), Lit(<<"(">>), Star(NotChr({")"})), Lit(<<")">>), Star(WS), Lit(<<"{">>)>>)

JS_PATTERNS ==
    <<"JS_PATTERNS[0]", "JS_PATTERNS[1]", "JS_PATTERNS[2]", "JS_PATTERNS[3]">>

\* ^\s*func\s+(?:\([^\)]+\)\s*)?(?P<name>[A-Za-z_][A-Za-z0-9_]*)\s*\(
GoPattern ==
    Cat(<<Bol, Star(WS), Lit(<<"f", "u", "n", "c">>), Plus(WS),
          Opt(Cat(<<Lit(<<"(">>), Plus(NotChr({")"})), Lit(<<")">>), Star(WS)>>)),
          Group(Ident), Star(WS), Lit(<<"(">>)>>)

\* ^\s*(?:public|private|protected|static|final|synchronized|abstract\s+)?
\* (?:[A-Za-z_<>,\[\]\.]+\s+)+(?P<name>[A-Za-z_][A-Za-z0-9_]*)\s*\([^\)]*\)\s*
\* (?:throws\s+[^\{]+)?\{
JavaPattern ==
    Cat(<<Bol, Star(WS),
          Opt(Alt(<<Lit(<<"p", "u", "b", "l", "i", "c">>), Lit(<<"p", "r", "i", "v", "a", "t", "e">>), Lit(<<"p", "r", "o", "t", "e", "c", "t", "e", "d">>), Lit(<<"s", "t", "a", "t", "i", "c">>),
                    Lit(<<"f", "i", "n", "a", "l">>), Lit(<<"s", "y", "n", "c", "h", "r", "o", "n", "i", "z", "e", "d">>),
                    Cat(<<Lit(<<"a", "b", "s", "t", "r", "a", "c", "t">>), Plus(WS)>>)>>)),
          Plus(Cat(<<Plus(Chr(Lower \cup Upper \cup {"_", "<", ">", ",", "[", "]", "."})),
                     Plus(WS)>>)),
          Group(Ident), Star(WS), Lit(<<"(">>), Star(NotChr({")"})), Lit(<<")">>), Star(WS),
          Opt(Cat(<<Lit(<<"t", "h", "r", "o", "w", "s">>), Plus(WS), Plus(NotChr({"{"}))>>)), Lit(<<"{">>)>>)

\* ^\s*def\s+(?P<name>[A-Za-z_]?[A-Za-z0-9_]+(?:\.[A-Za-z_][A-Za-z0-9_]*)?)
RubyPattern ==
    Cat(<<Bol, Star(WS), Lit(<<"d", "e", "f">>), Plus(WS),
          Group(Cat(<<Opt(Chr(Lower \cup Upper \cup {"_"})), Plus(Chr(WordCh)),
                      Opt(Cat(<<Lit(<<".">>), Ident>>))>>))>>)

----------------------------------------------------------------------------
(* _regex_functions *)

\* most lines of a source text handed to a locator
MaxSourceLines == 2

\* re.compile: the compiled pattern behind each pattern of the module
Compiled(p) ==
    CASE p = "JS_PATTERNS[0]" -> JsPattern1
      [] p = "JS_PATTERNS[1]" -> JsPattern2
      [] p = "JS_PATTERNS[2]" -> JsPattern3
      [] p = "JS_PATTERNS[3]" -> JsPattern4
      [] p = "go" -> GoPattern
      [] p = "java_like" -> JavaPattern
      [] p = "ruby" -> RubyPattern

\* the pattern list and the kind each of the four extractors passes
ExtractorCall(f) ==
    CASE f = "extract_js_functions" ->
           [patterns |-> JS_PATTERNS, kind |-> "js_function"]
      [] f = "extract_go_functions" ->
           [patterns |-> <<"go">>, kind |-> "go_function"]
      [] f = "extract_java_like_functions" ->
           [patterns |-> <<"java_like">>, kind |-> "java_like_function"]
      [] f = "extract_ruby_functions" ->
           [patterns |-> <<"ruby">>, kind |-> "ruby_method"]

RegexExtractors ==
    {"extract_js_functions", "extract_go_functions",
     "extract_java_like_functions", "extract_ruby_functions"}

ExtractorCalls == {ExtractorCall(f) : f \in RegexExtractors}

\* two more pattern lists, whose patterns match the same line with different
\* captures, in both orders
OtherCalls ==
    { [patterns |-> <<"ruby", "java_like">>, kind |-> "other"],
      [patterns |-> <<"java_like", "ruby">>, kind |-> "other"] }

LocatorLines ==
    { <<>>,
      <<"x">>,
      <<"{", "(">>,
      <<"d", "e", "f", " ", "f">>,
      <<"d", "e", "f", " ", "a", ".", "b", " ", "c", "(", ")", "{">>,
      <<"f", "u", "n", "c", " ", "f", "(">>,
      <<"f", "u", "n", "c", "t", "i", "o", "n", " ", "f", "(", ")", "{">>,
      <<"v", "a", "r", " ", "f", "=", "(">>,
      <<"f", "=", "(", ")", "=", ">">>,
      <<"f", "(", ")", "{">>,
      <<"i", "n", "t", " ", "f", "(", ")", "{">> }

\* mutant: no break after a hit, the next pattern is tried on the same line
RegexNoBreak(ln, pn) == [line_no |-> ln, pat_no |-> pn + 1]

\* break: the patterns left are not tried, the loop goes on with the next line
RegexBreak(ln, pn) == [line_no |-> ln + 1, pat_no |-> 1]

InLoop ==
    /\ fn = "_regex_functions" /\ pc = "loop"
    /\ line_no <= Len(lines)
    /\ pat_no <= Len(patterns)

\* pattern.search(line) is None: the next pattern
RegexMiss ==
    /\ InLoop
    /\ ~Search(Compiled(patterns[pat_no]), lines[line_no]).matched
    /\ pat_no' = pat_no + 1
    /\ UNCHANGED <<fn, pc, lines, patterns, kind, line_no, out>>
    /\ UNCHANGED outsideRegex

\* pattern.search(line) matches: a hit is appended, break
RegexHit ==
    /\ InLoop
    /\ LET match == Search(Compiled(patterns[pat_no]), lines[line_no])
       IN  /\ match.matched
           /\ out' = Append(out, FunctionHit(match.name, line_no, 0, kind))
    /\ line_no' = RegexBreak(line_no, pat_no).line_no
    /\ pat_no' = RegexBreak(line_no, pat_no).pat_no
    /\ UNCHANGED <<fn, pc, lines, patterns, kind>>
    /\ UNCHANGED outsideRegex

\* no pattern matched the line: the next line
RegexNextLine ==
    /\ fn = "_regex_functions" /\ pc = "loop"
    /\ line_no <= Len(lines)
    /\ pat_no > Len(patterns)
    /\ line_no' = line_no + 1
    /\ pat_no' = 1
    /\ UNCHANGED <<fn, pc, lines, patterns, kind, out>>
    /\ UNCHANGED outsideRegex

\* return out
RegexReturn ==
    /\ fn = "_regex_functions" /\ pc = "loop"
    /\ line_no > Len(lines)
    /\ pc' = "done"
    /\ UNCHANGED <<fn, lines, patterns, kind, line_no, pat_no, out>>
    /\ UNCHANGED outsideRegex

InitRegex ==
    /\ fn = "_regex_functions"
    /\ pc = "loop"
    /\ lines \in SeqsUpTo(LocatorLines, MaxSourceLines)
    /\ \E call \in ExtractorCalls \cup OtherCalls :
           patterns = call.patterns /\ kind = call.kind
    /\ line_no = 1
    /\ pat_no = 1
    /\ out = <<>>
    /\ start_line = 1
    /\ i = 0
    /\ k = 1
    /\ depth = 0
    /\ seen_open = FALSE
    /\ result = 0
    /\ parsed = "ok"
    /\ tree = NoTree
    /\ stack = <<>>
    /\ scope = <<>>
    /\ functions = <<>>
    /\ archive = <<>>
    /\ collect_body = FALSE
    /\ file_no = 1
    /\ scan_pc = "idle"
    /\ extracted_funcs = <<>>
    /\ hit_no = 1
    /\ funcs = <<>>
    /\ extractors = EXTRACTORS
    /\ IdleRunner
    /\ cur = 1
    /\ frames = <<>>
    /\ returned = <<>>

NextRegex ==
    \/ RegexMiss
    \/ RegexHit
    \/ RegexNextLine
    \/ RegexReturn

SpecRegex == InitRegex /\ [][NextRegex]_vars

\* the patterns of ps that match line s, by position in ps
Matching(ps, s) == {n \in 1..Len(ps) : Search(Compiled(ps[n]), s).matched}

\* C9: the hits of _regex_functions have strictly increasing start_line (so a
\* line yields at most one hit), each is named by the capture of the first
\* pattern of the list that matches its line, and when the function returns
\* the lines with a hit are exactly the lines some pattern matches.
RegexFirstPatternWins ==
    fn = "_regex_functions" =>
        /\ \A a \in 1..Len(out) : \A b \in 1..Len(out) :
               a < b => out[a].start_line < out[b].start_line
        /\ \A h \in 1..Len(out) :
               /\ out[h].start_line \in 1..Len(lines)
               /\ LET s == lines[out[h].start_line]
                  IN  /\ Matching(patterns, s) # {}
                      /\ out[h].name =
                             Search(Compiled(patterns[Min(Matching(patterns, s))]), s).name
        /\ pc = "done" =>
               {out[h].start_line : h \in 1..Len(out)} =
                   {n \in 1..Len(lines) : Matching(patterns, lines[n]) # {}}

\* "def a.b c(){" is matched by both patterns of <<"ruby", "java_like">>:
\* its one hit is named "a.b", the capture of the first; the line before it
\* matches neither and yields nothing
RegexFirstPatternWinsWitness ==
    /\ fn = "_regex_functions"
    /\ pc = "done"
    /\ patterns = <<"ruby", "java_like">>
    /\ lines = << <<"{", "(">>, <<"d", "e", "f", " ", "a", ".", "b", " ", "c", "(", ")", "{">> >>
    /\ Len(out) = 1
    /\ out[1].name = <<"a", ".", "b">>
    /\ out[1].start_line = 2
    /\ Search(JavaPattern, lines[2]).name = <<"c">>

----------------------------------------------------------------------------
(* scan_zip_archive: the loop over the entries of the unpacked archive. An  *)
(* entry is [is_dir, parts, suffix, size, readable, lines, parse, tree]:    *)
(* parts are the components of file_path.relative_to(top_dir), suffix is    *)
(* file_path.suffix, size is st_size, readable tells whether stat() and     *)
(* read_text() succeed, lines is source.splitlines(), and for a Python      *)
(* source parse is how ast.parse ends (one of ParseOutcomes) and tree the   *)
(* tree it returns.                                                         *)

\* most entries of an archive
MaxFiles == 2

\* --max-file-kb
MaxFileKb == 128

RepoId == "owner/repo"

SKIP_DIRS ==
    {".git", "node_modules", "dist", "build", ".venv", "vendor", "target",
     "__pycache__", ".idea", ".vscode"}

should_skip(parts) == \E n \in 1..Len(parts) : parts[n] \in SKIP_DIRS

\* mutant: an extension the table lacks falls back to the JavaScript locator
ExtractorGetFallback(ext) ==
    IF ext \in DOMAIN extractors THEN extractors[ext] ELSE "extract_js_functions"

\* EXTRACTORS.get(extension)
ExtractorGet(ext) == IF ext \in DOMAIN extractors THEN extractors[ext] ELSE "None"

\* str.lower() on the suffixes of the model
Lowered(sfx) ==
    CASE sfx = ".JS" -> ".js"
      [] sfx = ".PY" -> ".py"
      [] sfx = ".RB" -> ".rb"
      [] OTHER -> sfx

\* str(rel).replace("\\", "/")
RECURSIVE PathStr(_)
PathStr(parts) ==
    IF Len(parts) = 1 THEN parts[1] ELSE parts[1] \o "/" \o PathStr(Tail(parts))

\* xs[a:b] for 0 <= a
PySlice(xs, a, b) ==
    LET hi == IF b > Len(xs) THEN Len(xs) ELSE b
    IN  IF a >= hi THEN <<>> ELSE SubSeq(xs, a + 1, hi)

\* "\n".join(ls)
RECURSIVE JoinLines(_)
JoinLines(ls) ==
    IF ls = <<>> THEN <<>>
    ELSE IF Len(ls) = 1 THEN ls[1]
    ELSE ls[1] \o <<"\n">> \o JoinLines(Tail(ls))

PlainFile(parts, sfx, ls) ==
    [is_dir |-> FALSE, parts |-> parts, suffix |-> sfx, size |-> 100,
     readable |-> TRUE, lines |-> ls, parse |-> "ok", tree |-> NoTree]

\* class A:
\*  def f():
\*   async def f(): pass
PythonFile ==
    [PlainFile(<<"pkg", "a.py">>, ".py",
               << <<"c", "l", "a", "s", "s", " ", "A", ":">>, <<" ", "d", "e", "f", " ", "f", "(", ")", ":">>, <<" ", " ", "a", "s", "y", "n", "c", " ", "d", "e", "f", " ", "f", "(", ")", ":", " ", "p", "a", "s", "s">> >>)
     EXCEPT !.tree = [parent |-> <<0, 1, 2>>,
                      kind |-> <<"ClassDef", "FunctionDef", "AsyncFunctionDef">>,
                      name |-> << <<"A">>, <<"f">>, <<"f">> >>,
                      has_end |-> TRUE]]

\* def f(): pass      (parsed by a Python whose nodes carry no end_lineno)
OldPythonFile ==
    [PlainFile(<<"old.pyi">>, ".pyi", << <<"d", "e", "f", " ", "f", "(", ")", ":", " ", "p", "a", "s", "s">> >>)
     EXCEPT !.tree = [parent |-> <<0>>, kind |-> <<"FunctionDef">>,
                      name |-> << <<"f">> >>, has_end |-> FALSE]]

\* lines of the sources handed to the pattern-based extractors
ScanLines ==
    { <<"f", "(", ")", "{">>, <<"i", "n", "t", " ", "f", "(", ")", "{">>, <<"f", "u", "n", "c", " ", "f", "(">>, <<"d", "e", "f", " ", "f">>, <<"}">>, <<"e", "n", "d">>, <<"{", "(">> }

\* one source of every line sequence, under every extension mapped to a
\* pattern-based extractor
SourceFiles ==
    { PlainFile(<<"m" \o ext>>, ext, ls) :
        ext \in DOMAIN EXTRACTORS \ {".py", ".pyi"},
        ls \in SeqsUpTo(ScanLines, MaxSourceLines) }

FilePool ==
    { [PlainFile(<<"src">>, "", <<>>) EXCEPT !.is_dir = TRUE],
      PlainFile(<<"node_modules", "a.js">>, ".js", << <<"f", "(", ")", "{">> >>),
      PlainFile(<<"README.md">>, ".md", << <<"f", "(", ")", "{">> >>),
      [PlainFile(<<"big.ts">>, ".ts", << <<"f", "(", ")", "{">> >>) EXCEPT !.size = 204800],
      [PlainFile(<<"locked.c">>, ".c", <<>>) EXCEPT !.readable = FALSE],
      PythonFile,
      OldPythonFile,
      [PlainFile(<<"bad.pyi">>, ".pyi", << <<"d", "e", "f", " ", "f", "(", ":">> >>) EXCEPT !.parse = "SyntaxError"],
      [PlainFile(<<"deep.py">>, ".py", << <<"x">> >>) EXCEPT !.parse = "RecursionError"],
      PlainFile(<<"A.JS">>, ".JS", << <<"f", "(", ")", "{">>, <<"}">>, <<"v", "a", "r", " ", "f", "=", "(">> >>),
      PlainFile(<<"m.rb">>, ".rb", << <<"d", "e", "f", " ", "f">>, <<"#", "x">>, <<"e", "n", "d">>, <<"d", "e", "f", " ", "f">> >>),
      PlainFile(<<"m.go">>, ".go", << <<"f", "u", "n", "c", " ", "f", "(">>, <<"{", "(">>, <<"}">> >>),
      PlainFile(<<"M.java">>, ".java", << <<"i", "n", "t", " ", "f", "(", ")", "{">>, <<"}">> >>) }

\* the current entry and its extension
File == archive[file_no]

Extension == Lowered(File.suffix)

AtFile == fn = "scan_zip_archive" /\ scan_pc = "loop" /\ file_no <= Len(archive)

\* the entry passes the directory, extension, size and read tests
Readable ==
    /\ AtFile
    /\ ~(File.is_dir \/ should_skip(File.parts))
    /\ ExtractorGet(Extension) # "None"
    /\ File.readable
    /\ ~(File.size > MaxFileKb * 1024)

\* mutant: the brace-depth style for every extension
InferEndLineBrace(ext) == "find_brace_block_end"

\* if extension == ".rb": find_ruby_end_line, else find_brace_block_end
InferEndLine(ext) ==
    IF ext = ".rb" THEN "find_ruby_end_line" ELSE "find_brace_block_end"

\* if actual_end < hit.start_line: actual_end = hit.start_line
Clamp(actual_end, start) == IF actual_end < start THEN start ELSE actual_end

\* mutant: the record carries the hit's own end_line
ScanRecordRawEnd(file, ext, hit, actual_end, ls, cb) ==
    [repo |-> RepoId, path |-> PathStr(file.parts), name |-> hit.name,
     start_line |-> hit.start_line, end_line |-> hit.end_line, kind |-> hit.kind,
     extension |-> ext]

\* the record appended to funcs
ScanRecord(file, ext, hit, actual_end, ls, cb) ==
    LET body == JoinLines(PySlice(ls, hit.start_line - 1, actual_end))
    IN  IF cb /\ body # <<>>
        THEN [repo |-> RepoId, path |-> PathStr(file.parts), name |-> hit.name,
              start_line |-> hit.start_line, end_line |-> actual_end,
              kind |-> hit.kind, extension |-> ext, body |-> body]
        ELSE [repo |-> RepoId, path |-> PathStr(file.parts), name |-> hit.name,
              start_line |-> hit.start_line, end_line |-> actual_end,
              kind |-> hit.kind, extension |-> ext]

\* a directory, or a path below a directory of SKIP_DIRS: continue
ScanSkipPath ==
    /\ AtFile
    /\ File.is_dir \/ should_skip(File.parts)
    /\ file_no' = file_no + 1
    /\ UNCHANGED <<fn, pc, archive, collect_body, scan_pc, extracted_funcs, hit_no, funcs>>
    /\ UNCHANGED <<resolverVars, visitVars, regexVars>>
    /\ UNCHANGED <<moduleVars, runnerVars, threadVars>>

\* no extractor for the extension: continue
ScanNoExtractor ==
    /\ AtFile
    /\ ~(File.is_dir \/ should_skip(File.parts))
    /\ ExtractorGet(Extension) = "None"
    /\ file_no' = file_no + 1
    /\ UNCHANGED <<fn, pc, archive, collect_body, scan_pc, extracted_funcs, hit_no, funcs>>
    /\ UNCHANGED <<resolverVars, visitVars, regexVars>>
    /\ UNCHANGED <<moduleVars, runnerVars, threadVars>>

\* stat() or read_text() raises OSError: continue
ScanUnreadable ==
    /\ AtFile
    /\ ~(File.is_dir \/ should_skip(File.parts))
    /\ ExtractorGet(Extension) # "None"
    /\ ~File.readable
    /\ file_no' = file_no + 1
    /\ UNCHANGED <<fn, pc, archive, collect_body, scan_pc, extracted_funcs, hit_no, funcs>>
    /\ UNCHANGED <<resolverVars, visitVars, regexVars>>
    /\ UNCHANGED <<moduleVars, runnerVars, threadVars>>

\* st_size > max_file_kb * 1024: continue
ScanTooLarge ==
    /\ AtFile
    /\ ~(File.is_dir \/ should_skip(File.parts))
    /\ ExtractorGet(Extension) # "None"
    /\ File.readable
    /\ File.size > MaxFileKb * 1024
    /\ file_no' = file_no + 1
    /\ UNCHANGED <<fn, pc, archive, collect_body, scan_pc, extracted_funcs, hit_no, funcs>>
    /\ UNCHANGED <<resolverVars, visitVars, regexVars>>
    /\ UNCHANGED <<moduleVars, runnerVars, threadVars>>

\* extractor(source) for a pattern-based extractor: _regex_functions is called
ScanExtractRegex ==
    /\ Readable
    /\ ExtractorGet(Extension) \in RegexExtractors
    /\ fn' = "_regex_functions"
    /\ pc' = "loop"
    /\ lines' = File.lines
    /\ patterns' = ExtractorCall(ExtractorGet(Extension)).patterns
    /\ kind' = ExtractorCall(ExtractorGet(Extension)).kind
    /\ line_no' = 1
    /\ pat_no' = 1
    /\ out' = <<>>
    /\ scan_pc' = "extract"
    /\ UNCHANGED <<archive, collect_body, file_no, extracted_funcs, hit_no, funcs>>
    /\ UNCHANGED <<start_line, i, k, depth, seen_open, result, visitVars>>
    /\ UNCHANGED <<moduleVars, runnerVars, threadVars>>

\* extractor(source) for extract_python_functions, ast.parse succeeds:
\* visitor.visit(tree)
ScanExtractPython ==
    /\ Readable
    /\ ExtractorGet(Extension) = "extract_python_functions"
    /\ File.parse = "ok"
    /\ fn' = "extract_python_functions"
    /\ pc' = "visit"
    /\ parsed' = File.parse
    /\ tree' = File.tree
    /\ stack' = << [node |-> 0, next |-> 1] >>
    /\ scope' = <<>>
    /\ functions' = <<>>
    /\ scan_pc' = "extract"
    /\ UNCHANGED <<archive, collect_body, file_no, extracted_funcs, hit_no, funcs>>
    /\ UNCHANGED <<resolverVars, regexVars>>
    /\ UNCHANGED <<moduleVars, runnerVars, threadVars>>

\* ast.parse raises SyntaxError: extract_python_functions returns []
ScanPythonSyntaxError ==
    /\ Readable
    /\ ExtractorGet(Extension) = "extract_python_functions"
    /\ File.parse = "SyntaxError"
    /\ extracted_funcs' = <<>>
    /\ lines' = File.lines
    /\ hit_no' = 1
    /\ scan_pc' = "hits"
    /\ UNCHANGED <<fn, pc, archive, collect_body, file_no, funcs>>
    /\ UNCHANGED <<start_line, i, k, depth, seen_open, result, visitVars, regexVars>>
    /\ UNCHANGED <<moduleVars, runnerVars, threadVars>>

\* mutant: the exception swallowed without `continue`, the loop over the hits
\* runs on the extracted_funcs of an earlier file
ScanExtractorRaisesFallsThrough ==
    /\ Readable
    /\ ExtractorGet(Extension) = "extract_python_functions"
    /\ File.parse \notin {"ok", "SyntaxError"}
    /\ lines' = File.lines
    /\ hit_no' = 1
    /\ scan_pc' = "hits"
    /\ UNCHANGED <<fn, pc, archive, collect_body, file_no, extracted_funcs, funcs>>
    /\ UNCHANGED <<start_line, i, k, depth, seen_open, result, visitVars, regexVars>>
    /\ UNCHANGED <<moduleVars, runnerVars, threadVars>>

\* extractor(source) raises another exception: continue
ScanExtractorRaises ==
    /\ Readable
    /\ ExtractorGet(Extension) = "extract_python_functions"
    /\ File.parse \notin {"ok", "SyntaxError"}
    /\ file_no' = file_no + 1
    /\ UNCHANGED <<fn, pc, archive, collect_body, scan_pc, extracted_funcs, hit_no, funcs>>
    /\ UNCHANGED <<resolverVars, visitVars, regexVars>>
    /\ UNCHANGED <<moduleVars, runnerVars, threadVars>>

\* the extractor has returned: lines = source.splitlines(), the loop over the hits
ScanExtracted ==
    /\ scan_pc = "extract"
    /\ pc = "done"
    /\ extracted_funcs' = IF fn = "_regex_functions" THEN out ELSE functions
    /\ lines' = File.lines
    /\ hit_no' = 1
    /\ scan_pc' = "hits"
    /\ fn' = "scan_zip_archive"
    /\ pc' = "scan"
    /\ UNCHANGED <<archive, collect_body, file_no, funcs>>
    /\ UNCHANGED <<start_line, i, k, depth, seen_open, result, visitVars, regexVars>>
    /\ UNCHANGED <<moduleVars, runnerVars, threadVars>>

AtHit ==
    /\ fn = "scan_zip_archive" /\ scan_pc = "hits"
    /\ hit_no <= Len(extracted_funcs)

\* a hit of a .py / .pyi file: its own end_line, clamped, goes into the record
ScanHitExact ==
    /\ AtHit
    /\ Extension \in {".py", ".pyi"}
    /\ LET hit == extracted_funcs[hit_no]
           actual_end == Clamp(hit.end_line, hit.start_line)
       IN  funcs' = Append(funcs, ScanRecord(File, Extension, hit, actual_end,
                                             lines, collect_body))
    /\ hit_no' = hit_no + 1
    /\ UNCHANGED <<fn, pc, archive, collect_body, file_no, scan_pc, extracted_funcs>>
    /\ UNCHANGED <<resolverVars, visitVars, regexVars>>
    /\ UNCHANGED <<moduleVars, runnerVars, threadVars>>

\* a hit of any other file: infer_end_line(extension, lines, hit.start_line)
ScanInferEnd ==
    /\ AtHit
    /\ Extension \notin {".py", ".pyi"}
    /\ fn' = InferEndLine(Extension)
    /\ pc' = "loop"
    /\ start_line' = extracted_funcs[hit_no].start_line
    /\ i' = start_line' - 1
    /\ k' = 1
    /\ depth' = 0
    /\ seen_open' = FALSE
    /\ scan_pc' = "infer"
    /\ UNCHANGED <<lines, result>>
    /\ UNCHANGED <<archive, collect_body, file_no, extracted_funcs, hit_no, funcs>>
    /\ UNCHANGED <<visitVars, regexVars>>
    /\ UNCHANGED <<moduleVars, runnerVars, threadVars>>

\* infer_end_line has returned: the result, clamped, goes into the record
ScanInferred ==
    /\ scan_pc = "infer"
    /\ pc = "done"
    /\ LET hit == extracted_funcs[hit_no]
           actual_end == Clamp(result, hit.start_line)
       IN  funcs' = Append(funcs, ScanRecord(File, Extension, hit, actual_end,
                                             lines, collect_body))
    /\ hit_no' = hit_no + 1
    /\ scan_pc' = "hits"
    /\ fn' = "scan_zip_archive"
    /\ pc' = "scan"
    /\ UNCHANGED <<archive, collect_body, file_no, extracted_funcs>>
    /\ UNCHANGED <<resolverVars, visitVars, regexVars>>
    /\ UNCHANGED <<moduleVars, runnerVars, threadVars>>

\* the hits of the file are done: the next entry
ScanNextFile ==
    /\ fn = "scan_zip_archive" /\ scan_pc = "hits"
    /\ hit_no > Len(extracted_funcs)
    /\ file_no' = file_no + 1
    /\ scan_pc' = "loop"
    /\ UNCHANGED <<fn, pc, archive, collect_body, extracted_funcs, hit_no, funcs>>
    /\ UNCHANGED <<resolverVars, visitVars, regexVars>>
    /\ UNCHANGED <<moduleVars, runnerVars, threadVars>>

\* return funcs
ScanReturn ==
    /\ fn = "scan_zip_archive" /\ scan_pc = "loop"
    /\ file_no > Len(archive)
    /\ scan_pc' = "done"
    /\ UNCHANGED <<fn, pc, archive, collect_body, file_no, extracted_funcs, hit_no, funcs>>
    /\ UNCHANGED <<resolverVars, visitVars, regexVars>>
    /\ UNCHANGED <<moduleVars, runnerVars, threadVars>>

InitScan ==
    /\ fn = "scan_zip_archive"
    /\ pc = "scan"
    /\ archive \in SeqsUpTo(FilePool, MaxFiles) \cup {<<f>> : f \in SourceFiles}
    /\ collect_body \in BOOLEAN
    /\ file_no = 1
    /\ scan_pc = "loop"
    /\ extracted_funcs = <<>>
    /\ hit_no = 1
    /\ funcs = <<>>
    /\ extractors = EXTRACTORS
    /\ IdleRunner
    /\ cur = 1
    /\ frames = <<>>
    /\ returned = <<>>
    /\ lines = <<>>
    /\ start_line = 1
    /\ i = 0
    /\ k = 1
    /\ depth = 0
    /\ seen_open = FALSE
    /\ result = 0
    /\ parsed = "ok"
    /\ tree = NoTree
    /\ stack = <<>>
    /\ scope = <<>>
    /\ functions = <<>>
    /\ patterns = <<>>
    /\ kind = ""
    /\ line_no = 1
    /\ pat_no = 1
    /\ out = <<>>

\* the scan and the functions it calls (no call of a resolver by the scan
\* raises: see ScanCallsInRange)
NextScan ==
    \/ ScanSkipPath
    \/ ScanNoExtractor
    \/ ScanUnreadable
    \/ ScanTooLarge
    \/ ScanExtractRegex
    \/ ScanExtractPython
    \/ ScanPythonSyntaxError
    \/ ScanExtractorRaises
    \/ ScanExtracted
    \/ ScanHitExact
    \/ ScanInferEnd
    \/ ScanInferred
    \/ ScanNextFile
    \/ ScanReturn
    \/ RegexMiss
    \/ RegexHit
    \/ RegexNextLine
    \/ RegexReturn
    \/ VisitClassDef
    \/ VisitFunctionDef
    \/ VisitAsyncFunctionDef
    \/ LeaveClassDef
    \/ Leave
    \/ BraceOpen
    \/ BraceClose
    \/ BraceOther
    \/ BraceNextLine
    \/ BraceEof
    \/ RubySkip
    \/ RubyLine
    \/ RubyEof

SpecScan == InitScan /\ [][NextScan]_vars

\* the scan hands every resolver a start_line inside the line sequence, so
\* BraceRaise and RubyRaise, left out of NextScan, are never enabled
ScanCallsInRange ==
    scan_pc = "infer" => (1 <= start_line /\ start_line <= Len(lines) /\ i >= 0)

----------------------------------------------------------------------------
(* The functions as values: what a call returns, computed by the recursion  *)
(* of the code on its arguments alone. The resolvers are taken for          *)
(* start_line >= 1, where no negative index is read.                        *)

RECURSIVE BraceScan(_, _, _, _, _, _)
BraceScan(ls, sl, idx, off, d, so) ==
    IF idx >= Len(ls) THEN BraceEofResult(ls, sl, so)
    ELSE IF off > Len(ls[idx + 1]) THEN BraceScan(ls, sl, idx + 1, 1, d, so)
    ELSE LET ch == ls[idx + 1][off]
         IN  IF BraceOpens(ch) THEN BraceScan(ls, sl, idx, off + 1, d + 1, TRUE)
             ELSE IF BraceCloses(ch, d)
                  THEN IF d - 1 = 0 THEN BraceReturnLine(idx)
                       ELSE BraceScan(ls, sl, idx, off + 1, d - 1, so)
             ELSE BraceScan(ls, sl, idx, off + 1, d, so)

find_brace_block_end(ls, sl) == BraceScan(ls, sl, sl - 1, 1, 0, FALSE)

RECURSIVE RubyScan(_, _, _, _)
RubyScan(ls, sl, idx, d) ==
    IF idx >= Len(ls) THEN RubyEofResult(ls, sl)
    ELSE LET stripped == Strip(ls[idx + 1])
             d1 == IF RubyOpens(stripped) THEN d + 1 ELSE d
         IN  IF RubySkips(stripped) THEN RubyScan(ls, sl, idx + 1, d)
             ELSE IF RubyCloses(stripped) /\ d1 > 0
                  THEN IF d1 - 1 = 0 THEN RubyReturnLine(idx)
                       ELSE RubyScan(ls, sl, idx + 1, d1 - 1)
             ELSE RubyScan(ls, sl, idx + 1, d1)

find_ruby_end_line(ls, sl) == RubyScan(ls, sl, sl - 1, 0)

infer_end_line(ext, ls, sl) ==
    IF ext = ".rb" THEN find_ruby_end_line(ls, sl) ELSE find_brace_block_end(ls, sl)

\* the hits of the lines from ln on, with the patterns from pn on for line ln
RECURSIVE RegexScan(_, _, _, _, _)
RegexScan(ls, ps, kd, ln, pn) ==
    IF ln > Len(ls) THEN <<>>
    ELSE IF pn > Len(ps) THEN RegexScan(ls, ps, kd, ln + 1, 1)
    ELSE LET match == Search(Compiled(ps[pn]), ls[ln])
         IN  IF match.matched
             THEN <<FunctionHit(match.name, ln, 0, kd)>> \o
                  RegexScan(ls, ps, kd, RegexBreak(ln, pn).line_no,
                            RegexBreak(ln, pn).pat_no)
             ELSE RegexScan(ls, ps, kd, ln, pn + 1)

regex_functions(ls, ps, kd) == RegexScan(ls, ps, kd, 1, 1)

\* visit(c) with the scope sc, and generic_visit of p from its child `from` on
RECURSIVE VisitNode(_, _, _)
RECURSIVE VisitChildren(_, _, _, _)
VisitNode(t, c, sc) ==
    CASE t.kind[c] = "ClassDef" ->
           VisitChildren(t, c, c + 1, Append(sc, t.name[c]))
      [] t.kind[c] = "FunctionDef" ->
           <<NodeHit(t, sc, c, "python_function")>> \o VisitChildren(t, c, c + 1, sc)
      [] t.kind[c] = "AsyncFunctionDef" ->
           <<NodeHit(t, sc, c, "python_async_function")>> \o
           VisitChildren(t, c, c + 1, sc)
      [] OTHER -> VisitChildren(t, c, c + 1, sc)

VisitChildren(t, p, from, sc) ==
    LET c == NextChild(t, p, from)
    IN  IF c = 0 THEN <<>>
        ELSE VisitNode(t, c, sc) \o VisitChildren(t, p, c + 1, sc)

\* extract_python_functions for a source that parses or raises SyntaxError
extract_python_functions(how, t) ==
    IF how = "ok" THEN VisitChildren(t, 0, 1, <<>>) ELSE <<>>

\* the records one entry adds to funcs
RECURSIVE HitRecords(_, _, _, _, _)
HitRecords(file, ext, hits, h, cb) ==
    IF h > Len(hits) THEN <<>>
    ELSE LET hit == hits[h]
             actual_end ==
                 IF ext \in {".py", ".pyi"} THEN hit.end_line
                 ELSE infer_end_line(ext, file.lines, hit.start_line)
         IN  <<ScanRecord(file, ext, hit, Clamp(actual_end, hit.start_line),
                          file.lines, cb)>> \o
             HitRecords(file, ext, hits, h + 1, cb)

FileRecords(file, cb) ==
    LET ext == Lowered(file.suffix)
        extractor == ExtractorGet(ext)
    IN  IF file.is_dir \/ should_skip(file.parts) THEN <<>>
        ELSE IF extractor = "None" THEN <<>>
        ELSE IF ~file.readable \/ file.size > MaxFileKb * 1024 THEN <<>>
        ELSE IF extractor = "extract_python_functions"
             THEN IF file.parse \in {"ok", "SyntaxError"}
                  THEN HitRecords(file, ext,
                                  extract_python_functions(file.parse, file.tree), 1, cb)
                  ELSE <<>>
        ELSE HitRecords(file, ext,
                        regex_functions(file.lines, ExtractorCall(extractor).patterns,
                                        ExtractorCall(extractor).kind), 1, cb)

\* scan_zip_archive(archive, collect_body)
RECURSIVE scan_zip_archive(_, _)
scan_zip_archive(fs, cb) ==
    IF fs = <<>> THEN <<>> ELSE FileRecords(Head(fs), cb) \o scan_zip_archive(Tail(fs), cb)

\* the step machines return what the recursions give
StepsAgree ==
    /\ (fn = "find_brace_block_end" /\ pc = "done" /\ start_line >= 1)
           => result = find_brace_block_end(lines, start_line)
    /\ (fn = "find_ruby_end_line" /\ pc = "done" /\ start_line >= 1)
           => result = find_ruby_end_line(lines, start_line)
    /\ (fn = "_regex_functions" /\ pc = "done")
           => out = regex_functions(lines, patterns, kind)
    /\ (fn = "extract_python_functions" /\ pc = "done")
           => functions = extract_python_functions(parsed, tree)
    /\ scan_pc = "done" => funcs = scan_zip_archive(archive, collect_body)

\* C6: every record scan_zip_archive emits has end_line >= start_line >= 1;
\* the sentinel end_line = 0 of the pattern-based locators is never emitted.
ScanRecordsClamped ==
    \A r \in 1..Len(funcs) :
        /\ funcs[r].start_line >= 1
        /\ funcs[r].end_line >= funcs[r].start_line
        /\ funcs[r].end_line # 0

\* a finished scan of a Ruby file and a Python file: the first pattern-based
\* hit (end_line 0 from the locator) is emitted with end_line 3, the second,
\* never closed, with the last line
ScanRecordsClampedWitness ==
    /\ scan_pc = "done"
    /\ Len(archive) = 2
    /\ Len(funcs) = 4
    /\ funcs[1].extension = ".rb"
    /\ funcs[1].start_line = 1
    /\ funcs[1].end_line = 3
    /\ funcs[2].start_line = 4
    /\ funcs[2].end_line = 4
    /\ funcs[3].extension = ".py"
    /\ funcs[4].start_line = 3
    /\ funcs[4].end_line = 3

\* reading the entry fails, or its locator raises
BadFile(file) ==
    /\ ~(file.is_dir \/ should_skip(file.parts))
    /\ ExtractorGet(Lowered(file.suffix)) # "None"
    /\ \/ ~file.readable
       \/ /\ file.size <= MaxFileKb * 1024
          /\ ExtractorGet(Lowered(file.suffix)) = "extract_python_functions"
          /\ file.parse \notin {"ok", "SyntaxError"}

WithoutBad(fs) == SelectSeq(fs, LAMBDA file : ~BadFile(file))

\* C12: a file that cannot be read, or whose locator raises, adds no record and
\* does not stop the scan: nothing is raised, and the scan returns exactly the
\* records of the archive without its bad files.
ScanIsolatesBadFile ==
    scan_pc # "idle" =>
        /\ pc # "raised"
        /\ scan_pc = "done" =>
               funcs = scan_zip_archive(WithoutBad(archive), collect_body)

\* a finished scan of a Python file whose locator raised, followed by a Ruby
\* file: the two records of the Ruby file are all there is
ScanIsolatesBadFileWitness ==
    /\ scan_pc = "done"
    /\ Len(archive) = 2
    /\ BadFile(archive[1])
    /\ archive[1].readable
    /\ ~BadFile(archive[2])
    /\ Len(funcs) = 2
    /\ funcs[1].extension = ".rb"
    /\ funcs[2].extension = ".rb"

\* the lower-cased extension of the entry is no key of EXTRACTORS
Unmapped(file) == Lowered(file.suffix) \notin DOMAIN EXTRACTORS

\* C13: while scan_zip_archive is at a file whose lower-cased extension is not
\* a key of EXTRACTORS, no locator and no resolver runs and nothing is raised;
\* no record carries such an extension or the path of such a file; and the
\* table is the one the module defined, in every state of the scan.
ScanDispatchesOnExtension ==
    scan_pc # "idle" =>
        /\ extractors = EXTRACTORS
        /\ (file_no <= Len(archive) /\ Unmapped(File)) =>
               /\ fn = "scan_zip_archive"
               /\ scan_pc = "loop"
               /\ pc = "scan"
        /\ \A r \in 1..Len(funcs) :
               /\ funcs[r].extension \in DOMAIN EXTRACTORS
               /\ \A n \in 1..Len(archive) :
                      Unmapped(archive[n]) => funcs[r].path # PathStr(archive[n].parts)

\* a finished scan of README.md (whose only line the JavaScript patterns
\* match) and a Java file: the one record is the Java file's
ScanDispatchesOnExtensionWitness ==
    /\ scan_pc = "done"
    /\ Len(archive) = 2
    /\ Unmapped(archive[1])
    /\ ~archive[1].is_dir
    /\ ~should_skip(archive[1].parts)
    /\ Search(JsPattern4, archive[1].lines[1]).matched
    /\ Len(funcs) = 1
    /\ funcs[1].extension = ".java"

Resolvers == {"find_brace_block_end", "find_ruby_end_line"}

\* the entries of the archive a record can come from
SourcesOf(rec) ==
    {n \in 1..Len(archive) :
        /\ PathStr(archive[n].parts) = rec.path
        /\ Lowered(archive[n].suffix) = rec.extension}

\* C14: for a .py / .pyi file no resolver runs and every record carries the
\* end_line of the locator's hit; for every other extension the resolver that
\* runs is find_ruby_end_line exactly when the extension is .rb and
\* find_brace_block_end otherwise, it is given the hit's start_line, and the
\* record carries its result, raised to start_line when below it.
ScanSelectsResolver ==
    scan_pc # "idle" =>
        /\ (file_no <= Len(archive) /\ Extension \in {".py", ".pyi"}) =>
               fn \notin Resolvers /\ scan_pc # "infer"
        /\ fn \in Resolvers =>
               /\ scan_pc = "infer"
               /\ fn = "find_ruby_end_line" <=> Extension = ".rb"
               /\ start_line = extracted_funcs[hit_no].start_line
               /\ lines = File.lines
        /\ \A r \in 1..Len(funcs) :
               /\ SourcesOf(funcs[r]) # {}
               /\ \A n \in SourcesOf(funcs[r]) :
                      LET file == archive[n]
                          rec == funcs[r]
                          hits == extract_python_functions(file.parse, file.tree)
                      IN  IF rec.extension \in {".py", ".pyi"}
                          THEN \E h \in 1..Len(hits) :
                                  /\ hits[h].start_line = rec.start_line
                                  /\ hits[h].name = rec.name
                                  /\ hits[h].end_line = rec.end_line
                          ELSE IF rec.extension = ".rb"
                          THEN rec.end_line =
                                   Max({rec.start_line,
                                        find_ruby_end_line(file.lines, rec.start_line)})
                          ELSE rec.end_line =
                                   Max({rec.start_line,
                                        find_brace_block_end(file.lines, rec.start_line)})

\* a finished scan of a .pyi file whose nodes carry no end_lineno and of a
\* Ruby file whose first method ends on line 3, where the brace-depth style
\* would have given line 1
ScanSelectsResolverWitness ==
    /\ scan_pc = "done"
    /\ Len(archive) = 2
    /\ Len(funcs) = 3
    /\ funcs[1].extension = ".pyi"
    /\ funcs[1].end_line = 1
    /\ funcs[2].extension = ".rb"
    /\ funcs[2].start_line = 1
    /\ funcs[2].end_line = 3
    /\ find_brace_block_end(archive[2].lines, 1) = 1

\* C23: every record scan_zip_archive emits for a file with a mapped
\* extension other than .py / .pyi has start_line <= end_line <= the number
\* of lines of the file's text: the locator's hits and the resolver read the
\* same line sequence, the hit's start_line lies in it, and the resolver's
\* result is not past its last line.
ScanRecordsWithinText ==
    scan_pc # "idle" =>
        /\ (fn \in Resolvers) =>
               /\ lines = File.lines
               /\ 1 <= start_line /\ start_line <= Len(lines)
               /\ pc = "done" => result <= Len(lines)
        /\ \A r \in 1..Len(funcs) :
               funcs[r].extension \notin {".py", ".pyi"} =>
                   /\ SourcesOf(funcs[r]) # {}
                   /\ \A n \in SourcesOf(funcs[r]) :
                          /\ funcs[r].start_line <= funcs[r].end_line
                          /\ funcs[r].end_line <= Len(archive[n].lines)

\* a finished scan with a pattern-based record that starts before the last
\* line of its file and ends on it
ScanRecordsWithinTextWitness ==
    /\ scan_pc = "done"
    /\ \E r \in 1..Len(funcs) :
           /\ funcs[r].extension \notin {".py", ".pyi"}
           /\ \E n \in SourcesOf(funcs[r]) :
                  /\ funcs[r].start_line < funcs[r].end_line
                  /\ funcs[r].end_line = Len(archive[n].lines)

----------------------------------------------------------------------------
(* Worker threads (ThreadPoolExecutor of _process_repositories): each runs  *)
(* one call of a locator or a resolver on a text of its own. The arguments  *)
(* and locals of a call, and the objects the call creates (the visitor with *)
(* its scope and functions, the list out), belong to the call; a context    *)
(* switch can fall between any two steps.                                   *)

\* most worker threads
MaxThreads == 2

Threads == 1..MaxThreads

\* the frame of the running thread
Frame ==
    [fn |-> fn, pc |-> pc, lines |-> lines, start_line |-> start_line, i |-> i,
     k |-> k, depth |-> depth, seen_open |-> seen_open, result |-> result,
     parsed |-> parsed, tree |-> tree, stack |-> stack, scope |-> scope,
     functions |-> functions, patterns |-> patterns, kind |-> kind,
     line_no |-> line_no, pat_no |-> pat_no, out |-> out]

\* the frame of a call that has not started
IdleFrame ==
    [fn |-> "", pc |-> "idle", lines |-> <<>>, start_line |-> 1, i |-> 0, k |-> 1,
     depth |-> 0, seen_open |-> FALSE, result |-> 0, parsed |-> "ok",
     tree |-> NoTree, stack |-> <<>>, scope |-> <<>>, functions |-> <<>>,
     patterns |-> <<>>, kind |-> "", line_no |-> 1, pat_no |-> 1, out |-> <<>>]

\* find_brace_block_end(ls, sl) / find_ruby_end_line(ls, sl) is entered
ResolverCall(f, ls, sl) ==
    [IdleFrame EXCEPT !.fn = f, !.pc = "loop", !.lines = ls, !.start_line = sl,
                      !.i = sl - 1]

\* an extractor of RegexExtractors is entered with the lines of its source
RegexCall(f, ls) ==
    [IdleFrame EXCEPT !.fn = "_regex_functions", !.pc = "loop", !.lines = ls,
                      !.patterns = ExtractorCall(f).patterns,
                      !.kind = ExtractorCall(f).kind]

\* extract_python_functions is entered with a source that parses to t
PythonCall(how, t) ==
    [IdleFrame EXCEPT !.fn = "extract_python_functions", !.pc = "parse",
                      !.parsed = how, !.tree = t]

\* the calls the threads make: two Python sources (class A: def f: async def
\* f, and a function below a statement), a Ruby source for the pattern-based
\* locator, and a text for each resolver
Invocations ==
    { PythonCall("ok", PythonFile.tree),
      PythonCall("ok", [parent |-> <<0, 1>>, kind |-> <<"Other", "FunctionDef">>,
                        name |-> << <<"A">>, <<"f">> >>, has_end |-> TRUE]),
      RegexCall("extract_ruby_functions", << <<"x">>, <<"d", "e", "f", " ", "f">> >>),
      ResolverCall("find_brace_block_end", << <<"x", "{", "{", "}">> >>, 1),
      ResolverCall("find_ruby_end_line", << <<"#", "x">>, <<"d", "e", "f", " ", "f">> >>, 1) }

\* mutant: scope as an attribute of the class, one list for all visitors
SharedScope(own, shared) == shared

\* self.scope = []  in __init__: every visitor has a scope of its own
OwnScope(own, shared) == own

\* the frame f becomes the running one
Load(f) ==
    /\ fn' = f.fn
    /\ pc' = f.pc
    /\ lines' = f.lines
    /\ start_line' = f.start_line
    /\ i' = f.i
    /\ k' = f.k
    /\ depth' = f.depth
    /\ seen_open' = f.seen_open
    /\ result' = f.result
    /\ parsed' = f.parsed
    /\ tree' = f.tree
    /\ stack' = f.stack
    /\ scope' = OwnScope(f.scope, scope)
    /\ functions' = f.functions
    /\ patterns' = f.patterns
    /\ kind' = f.kind
    /\ line_no' = f.line_no
    /\ pat_no' = f.pat_no
    /\ out' = f.out

\* the scheduler suspends the running thread and resumes thread t
Switch ==
    /\ frames # <<>>
    /\ \E t \in DOMAIN frames \ {cur} :
           /\ frames[t].pc \notin {"done", "raised"}
           /\ frames' = [frames EXCEPT ![cur] = Frame]
           /\ cur' = t
           /\ Load(frames[t])
    /\ UNCHANGED <<returned, scanVars, moduleVars, runnerVars>>

InitThreads ==
    /\ frames \in [Threads -> Invocations]
    /\ cur = 1
    /\ returned = <<>>
    /\ fn = frames[1].fn
    /\ pc = frames[1].pc
    /\ lines = frames[1].lines
    /\ start_line = frames[1].start_line
    /\ i = frames[1].i
    /\ k = frames[1].k
    /\ depth = frames[1].depth
    /\ seen_open = frames[1].seen_open
    /\ result = frames[1].result
    /\ parsed = frames[1].parsed
    /\ tree = frames[1].tree
    /\ stack = frames[1].stack
    /\ scope = frames[1].scope
    /\ functions = frames[1].functions
    /\ patterns = frames[1].patterns
    /\ kind = frames[1].kind
    /\ line_no = frames[1].line_no
    /\ pat_no = frames[1].pat_no
    /\ out = frames[1].out
    /\ archive = <<>>
    /\ collect_body = FALSE
    /\ file_no = 1
    /\ scan_pc = "idle"
    /\ extracted_funcs = <<>>
    /\ hit_no = 1
    /\ funcs = <<>>
    /\ extractors = EXTRACTORS
    /\ IdleRunner

NextThreads ==
    \/ Switch
    \/ ParseOk
    \/ VisitClassDef
    \/ VisitFunctionDef
    \/ VisitAsyncFunctionDef
    \/ VisitOther
    \/ LeaveClassDef
    \/ Leave
    \/ RegexMiss
    \/ RegexHit
    \/ RegexNextLine
    \/ RegexReturn
    \/ BraceOpen
    \/ BraceClose
    \/ BraceOther
    \/ BraceNextLine
    \/ BraceEof
    \/ RubySkip
    \/ RubyLine
    \/ RubyEof

SpecThreads == InitThreads /\ [][NextThreads]_vars

\* the frame of thread t as it is now
FrameOf(t) == IF t = cur THEN Frame ELSE frames[t]

\* what the call of frame f returns when it runs alone
Alone(f) ==
    CASE f.fn = "find_brace_block_end" -> find_brace_block_end(f.lines, f.start_line)
      [] f.fn = "find_ruby_end_line" -> find_ruby_end_line(f.lines, f.start_line)
      [] f.fn = "_regex_functions" -> regex_functions(f.lines, f.patterns, f.kind)
      [] f.fn = "extract_python_functions" -> extract_python_functions(f.parsed, f.tree)

\* the value a finished call has returned
Returned(f) ==
    CASE f.fn \in Resolvers -> f.result
      [] f.fn = "_regex_functions" -> f.out
      [] f.fn = "extract_python_functions" -> f.functions

\* C15: whatever the interleaving of the threads, every call that has
\* returned has returned what it returns when run alone on its own text, and
\* no call raises.
ThreadsReturnAsAlone ==
    frames # <<>> =>
        \A t \in DOMAIN frames :
            /\ FrameOf(t).pc # "raised"
            /\ FrameOf(t).pc = "done" => Returned(FrameOf(t)) = Alone(FrameOf(t))

\* thread 2 has run its whole call, with two hits, while thread 1 is suspended
\* inside class A of another source, its scope holding "A"
ThreadsReturnAsAloneWitness ==
    /\ frames # <<>>
    /\ cur = 2
    /\ fn = "extract_python_functions"
    /\ pc = "done"
    /\ Len(functions) = 1
    /\ functions[1].name = <<"f">>
    /\ frames[1].fn = "extract_python_functions"
    /\ frames[1].pc = "visit"
    /\ frames[1].scope = << <<"A">> >>
    /\ Len(frames[1].functions) = 1

----------------------------------------------------------------------------
(* Locator calls one after another in one thread: every call is entered    *)
(* with fresh locals, and what it returns is recorded in `returned`.        *)

\* most calls in a row
MaxCalls == 3

\* the locators of EXTRACTORS on a few sources
LocatorCalls ==
    { PythonCall("ok", PythonFile.tree),
      PythonCall("ok", OldPythonFile.tree),
      PythonCall("SyntaxError", NoTree),
      RegexCall("extract_js_functions", << <<"f", "(", ")", "{">>, <<"x">> >>),
      RegexCall("extract_go_functions", << <<"f", "u", "n", "c", " ", "f", "(">> >>),
      RegexCall("extract_java_like_functions", << <<"i", "n", "t", " ", "f", "(", ")", "{">> >>),
      RegexCall("extract_ruby_functions", << <<"d", "e", "f", " ", "f">> >>),
      RegexCall("extract_ruby_functions", << <<"x">>, <<"d", "e", "f", " ", "f">> >>) }

\* mutant: the list of an earlier call used again
KeptList(old) == old

\* out: list[FunctionHit] = []  /  self.functions = []
NewList(old) == <<>>

\* what is called, with which source
CallOf(f) ==
    [fn |-> f.fn, lines |-> f.lines, patterns |-> f.patterns, kind |-> f.kind,
     parsed |-> f.parsed, tree |-> f.tree]

\* a locator is entered
Call ==
    /\ frames = <<>>
    /\ pc \in {"idle", "returned"}
    /\ Len(returned) < MaxCalls
    /\ \E g \in LocatorCalls :
           /\ fn' = g.fn
           /\ pc' = g.pc
           /\ lines' = g.lines
           /\ patterns' = g.patterns
           /\ kind' = g.kind
           /\ parsed' = g.parsed
           /\ tree' = g.tree
    /\ line_no' = 1
    /\ pat_no' = 1
    /\ out' = NewList(out)
    /\ functions' = NewList(functions)
    /\ stack' = <<>>
    /\ scope' = <<>>
    /\ UNCHANGED <<start_line, i, k, depth, seen_open, result>>
    /\ UNCHANGED <<scanVars, moduleVars, runnerVars, threadVars>>

\* the locator returns to its caller
CallReturn ==
    /\ frames = <<>>
    /\ fn \in {"_regex_functions", "extract_python_functions"}
    /\ pc = "done"
    /\ returned' = Append(returned, [call |-> CallOf(Frame), value |-> Returned(Frame)])
    /\ pc' = "returned"
    /\ UNCHANGED <<fn, resolverVars, visitVars, regexVars, scanVars, moduleVars, runnerVars, cur,
                   frames>>

InitRepeat ==
    /\ fn = ""
    /\ pc = "idle"
    /\ lines = <<>>
    /\ start_line = 1
    /\ i = 0
    /\ k = 1
    /\ depth = 0
    /\ seen_open = FALSE
    /\ result = 0
    /\ parsed = "ok"
    /\ tree = NoTree
    /\ stack = <<>>
    /\ scope = <<>>
    /\ functions = <<>>
    /\ patterns = <<>>
    /\ kind = ""
    /\ line_no = 1
    /\ pat_no = 1
    /\ out = <<>>
    /\ archive = <<>>
    /\ collect_body = FALSE
    /\ file_no = 1
    /\ scan_pc = "idle"
    /\ extracted_funcs = <<>>
    /\ hit_no = 1
    /\ funcs = <<>>
    /\ extractors = EXTRACTORS
    /\ IdleRunner
    /\ cur = 1
    /\ frames = <<>>
    /\ returned = <<>>

NextRepeat ==
    \/ Call
    \/ CallReturn
    \/ ParseOk
    \/ ParseSyntaxError
    \/ VisitClassDef
    \/ VisitFunctionDef
    \/ VisitAsyncFunctionDef
    \/ LeaveClassDef
    \/ Leave
    \/ RegexMiss
    \/ RegexHit
    \/ RegexNextLine
    \/ RegexReturn

SpecRepeat == InitRepeat /\ [][NextRepeat]_vars

\* C17: two calls of a locator on the same source return the same ordered hit
\* sequence (names, start lines, end lines, kinds), whatever was located
\* between them.
LocatorIsIdempotent ==
    \A a \in 1..Len(returned) : \A b \in 1..Len(returned) :
        returned[a].call = returned[b].call =>
            returned[a].value = returned[b].value

\* the pattern-based locator has run on a source, then another locator on
\* another source, then the first again: the first and the third call
\* returned the same two-line source's one hit
LocatorIsIdempotentWitness ==
    /\ Len(returned) = 3
    /\ returned[1].call = returned[3].call
    /\ returned[2].call # returned[1].call
    /\ returned[2].value # <<>>
    /\ returned[1].call.fn = "_regex_functions"
    /\ Len(returned[1].call.lines) = 2
    /\ Len(returned[3].value) = 1

----------------------------------------------------------------------------
(* runner.py: _chunked_targets and _batch_ranges. A range (a, b) is the     *)
(* pair <<a, b>>; batch_targets = <<>> stands for None and for the empty    *)
(* list, which `if not targets` treats alike.                               *)

\* most repositories
MaxTotal == 4

\* most batch targets
MaxTargets == 2

\* longest list of repositories handed to _process_repositories
MaxRepos == 3

\* args.workers ranges over 0 .. MaxWorkers
MaxWorkers == 2

\* list(range(a, b, step)) for step >= 1
RECURSIVE PyRange(_, _, _)
PyRange(a, b, step) == IF a >= b THEN <<>> ELSE <<a>> \o PyRange(a + step, b, step)

\* _chunked_targets
chunked_targets(final_top, size) ==
    LET step == Max({1, size})
        ts == PyRange(step, final_top + 1, step)
    IN  IF ts = <<>> \/ ts[Len(ts)] # final_top THEN Append(ts, final_top) ELSE ts

\* mutant: the target taken as it is
BatchEndUnclamped(tot, target) == target

\* end = min(total, max(target, 0))
BatchEnd(tot, target) == Min({tot, Max({target, 0})})

\* if not targets: targets = _chunked_targets(total, chunk_size); ranges = []; prev = 0
BatchEnter ==
    /\ fn = "_batch_ranges" /\ pc = "enter"
    /\ targets' = IF batch_targets = <<>> THEN chunked_targets(total, chunk_size)
                  ELSE batch_targets
    /\ ranges' = <<>>
    /\ prev' = 0
    /\ target_no' = 1
    /\ pc' = "loop"
    /\ UNCHANGED <<fn, total, batch_targets, chunk_size>>
    /\ UNCHANGED <<resolverVars, visitVars, regexVars, scanVars, moduleVars, threadVars,
                   fetchVars, processVars>>

\* end > prev: ranges.append((prev, end)); prev = end
BatchTake ==
    /\ fn = "_batch_ranges" /\ pc = "loop"
    /\ target_no <= Len(targets)
    /\ BatchEnd(total, targets[target_no]) > prev
    /\ ranges' = Append(ranges, <<prev, BatchEnd(total, targets[target_no])>>)
    /\ prev' = BatchEnd(total, targets[target_no])
    /\ target_no' = target_no + 1
    /\ UNCHANGED <<fn, pc, total, batch_targets, chunk_size, targets>>
    /\ UNCHANGED <<resolverVars, visitVars, regexVars, scanVars, moduleVars, threadVars,
                   fetchVars, processVars>>

\* end <= prev: the target adds no range
BatchSkip ==
    /\ fn = "_batch_ranges" /\ pc = "loop"
    /\ target_no <= Len(targets)
    /\ ~(BatchEnd(total, targets[target_no]) > prev)
    /\ target_no' = target_no + 1
    /\ UNCHANGED <<fn, pc, total, batch_targets, chunk_size, targets, prev, ranges>>
    /\ UNCHANGED <<resolverVars, visitVars, regexVars, scanVars, moduleVars, threadVars,
                   fetchVars, processVars>>

\* if prev < total: ranges.append((prev, total)); return ranges
BatchTail ==
    /\ fn = "_batch_ranges" /\ pc = "loop"
    /\ target_no > Len(targets)
    /\ prev < total
    /\ ranges' = Append(ranges, <<prev, total>>)
    /\ pc' = "done"
    /\ UNCHANGED <<fn, total, batch_targets, chunk_size, targets, target_no, prev>>
    /\ UNCHANGED <<resolverVars, visitVars, regexVars, scanVars, moduleVars, threadVars,
                   fetchVars, processVars>>

\* return ranges
BatchReturn ==
    /\ fn = "_batch_ranges" /\ pc = "loop"
    /\ target_no > Len(targets)
    /\ ~(prev < total)
    /\ pc' = "done"
    /\ UNCHANGED <<fn, total, batch_targets, chunk_size, targets, target_no, prev,
                   ranges>>
    /\ UNCHANGED <<resolverVars, visitVars, regexVars, scanVars, moduleVars, threadVars,
                   fetchVars, processVars>>

InitBatch ==
    /\ fn = "_batch_ranges"
    /\ pc = "enter"
    /\ total \in 0..MaxTotal
    /\ batch_targets \in SeqsUpTo((0 - 1)..(MaxTotal + 1), MaxTargets)
    /\ chunk_size \in 0..(MaxTotal + 1)
    /\ targets = <<>>
    /\ target_no = 1
    /\ prev = 0
    /\ ranges = <<>>
    /\ top_n = 0
    /\ ranking = 0
    /\ requested = 0
    /\ repos = <<>>
    /\ page = 1
    /\ per_page = 0
    /\ total_count = 0
    /\ response = [total_count |-> 0, items |-> <<>>]
    /\ fetched = <<>>
    /\ requests = 0
    /\ IdleProcess
    /\ lines = <<>>
    /\ start_line = 1
    /\ i = 0
    /\ k = 1
    /\ depth = 0
    /\ seen_open = FALSE
    /\ result = 0
    /\ parsed = "ok"
    /\ tree = NoTree
    /\ stack = <<>>
    /\ scope = <<>>
    /\ functions = <<>>
    /\ patterns = <<>>
    /\ kind = ""
    /\ line_no = 1
    /\ pat_no = 1
    /\ out = <<>>
    /\ archive = <<>>
    /\ collect_body = FALSE
    /\ file_no = 1
    /\ scan_pc = "idle"
    /\ extracted_funcs = <<>>
    /\ hit_no = 1
    /\ funcs = <<>>
    /\ extractors = EXTRACTORS
    /\ cur = 1
    /\ frames = <<>>
    /\ returned = <<>>

NextBatch ==
    \/ BatchEnter
    \/ BatchTake
    \/ BatchSkip
    \/ BatchTail
    \/ BatchReturn

SpecBatch == InitBatch /\ [][NextBatch]_vars

\* the number of ranges that hold the index idx
Holding(rs, idx) == Cardinality({n \in 1..Len(rs) : rs[n][1] <= idx /\ idx < rs[n][2]})

\* C19: for total >= 1, _batch_ranges returns non-empty ranges that start at
\* 0, follow one another without gap and end at total, so every index of
\* 0..total-1 lies in exactly one of them; with no targets and chunk_size
\* c >= 1 they are (0,c), (c,2c), ..., the last one ending at total.
BatchRangesPartition ==
    (fn = "_batch_ranges" /\ pc = "done" /\ total >= 1) =>
        /\ ranges # <<>>
        /\ ranges[1][1] = 0
        /\ ranges[Len(ranges)][2] = total
        /\ \A n \in 1..Len(ranges) : ranges[n][1] < ranges[n][2]
        /\ \A n \in 1..(Len(ranges) - 1) : ranges[n][2] = ranges[n + 1][1]
        /\ \A idx \in 0..(total - 1) : Holding(ranges, idx) = 1
        /\ (batch_targets = <<>> /\ chunk_size >= 1) =>
               /\ Len(ranges) = (total + chunk_size - 1) \div chunk_size
               /\ \A n \in 1..Len(ranges) :
                      ranges[n] = <<(n - 1) * chunk_size, Min({n * chunk_size, total})>>

\* four repositories in batches of three: 1-3 and 4
BatchRangesPartitionWitness ==
    /\ fn = "_batch_ranges"
    /\ pc = "done"
    /\ total = 4
    /\ batch_targets = <<>>
    /\ chunk_size = 3
    /\ ranges = << <<0, 3>>, <<3, 4>> >>

----------------------------------------------------------------------------
(* gf_client.py: fetch_top_repositories against a search API that answers   *)
(* the request (page p, per_page n) with the results (p-1)*n+1 .. p*n of    *)
(* one fixed ranking of `ranking` repositories, and reports total_count =   *)
(* ranking. A repository is written as its rank.                            *)

\* min(100, remain)  and  page * 100
PerPageMax == 100

\* min(top_n, 1000)  and  page * 100 >= 1000
SearchCap == 1000

\* the values of top_n
TopNs == {0, 1, 2, 99, 100, 101, 150, 200, 250, 999, 1000, 1001}

\* the sizes of the ranking
Rankings == {0, 1, 2, 99, 100, 101, 150, 200, 250, 1000, 1001, 1100}

\* the integers lo .. hi in order
Ranks(lo, hi) == [n \in 1..(IF hi >= lo THEN hi - lo + 1 ELSE 0) |-> lo + n - 1]

\* the answer to _build_search_url(..., per_page=n, page=p)
SearchAnswer(size, p, n) ==
    [total_count |-> size,
     items |-> Ranks((p - 1) * n + 1, Min({p * n, size}))]

\* a return without the slice: repos, total_count
FetchResultUnsliced(rs, req) == rs

\* repos[:requested], total_count
FetchResult(rs, req) == SubSeq(rs, 1, Min({req, Len(rs)}))

\* the loop is entered: the next page is requested
FetchRequest ==
    /\ fn = "fetch_top_repositories" /\ pc = "loop"
    /\ Len(repos) < requested
    /\ per_page' = Min({PerPageMax, requested - Len(repos)})
    /\ response' = SearchAnswer(ranking, page, per_page')
    /\ total_count' = IF total_count = 0 THEN response'.total_count ELSE total_count
    /\ requests' = requests + 1
    /\ pc' = "response"
    /\ UNCHANGED <<fn, top_n, ranking, requested, repos, page, fetched>>
    /\ UNCHANGED <<resolverVars, visitVars, regexVars, scanVars, moduleVars, threadVars,
                   batchVars, processVars>>

\* if not items: break
FetchEmpty ==
    /\ fn = "fetch_top_repositories" /\ pc = "response"
    /\ response.items = <<>>
    /\ fetched' = FetchResult(repos, requested)
    /\ pc' = "done"
    /\ UNCHANGED <<fn, top_n, ranking, requested, repos, page, per_page, total_count,
                   response, requests>>
    /\ UNCHANGED <<resolverVars, visitVars, regexVars, scanVars, moduleVars, threadVars,
                   batchVars, processVars>>

\* repos.extend(items); if len(items) < per_page: break
FetchShort ==
    /\ fn = "fetch_top_repositories" /\ pc = "response"
    /\ response.items # <<>>
    /\ Len(response.items) < per_page
    /\ repos' = repos \o response.items
    /\ fetched' = FetchResult(repos', requested)
    /\ pc' = "done"
    /\ UNCHANGED <<fn, top_n, ranking, requested, page, per_page, total_count, response,
                   requests>>
    /\ UNCHANGED <<resolverVars, visitVars, regexVars, scanVars, moduleVars, threadVars,
                   batchVars, processVars>>

\* repos.extend(items); if page * 100 >= 1000: break
FetchCap ==
    /\ fn = "fetch_top_repositories" /\ pc = "response"
    /\ response.items # <<>>
    /\ ~(Len(response.items) < per_page)
    /\ page * PerPageMax >= SearchCap
    /\ repos' = repos \o response.items
    /\ fetched' = FetchResult(repos', requested)
    /\ pc' = "done"
    /\ UNCHANGED <<fn, top_n, ranking, requested, page, per_page, total_count, response,
                   requests>>
    /\ UNCHANGED <<resolverVars, visitVars, regexVars, scanVars, moduleVars, threadVars,
                   batchVars, processVars>>

\* repos.extend(items); if len(repos) >= total_count: break
FetchAll ==
    /\ fn = "fetch_top_repositories" /\ pc = "response"
    /\ response.items # <<>>
    /\ ~(Len(response.items) < per_page)
    /\ ~(page * PerPageMax >= SearchCap)
    /\ repos' = repos \o response.items
    /\ Len(repos') >= total_count
    /\ fetched' = FetchResult(repos', requested)
    /\ pc' = "done"
    /\ UNCHANGED <<fn, top_n, ranking, requested, page, per_page, total_count, response,
                   requests>>
    /\ UNCHANGED <<resolverVars, visitVars, regexVars, scanVars, moduleVars, threadVars,
                   batchVars, processVars>>

\* repos.extend(items); page += 1
FetchNextPage ==
    /\ fn = "fetch_top_repositories" /\ pc = "response"
    /\ response.items # <<>>
    /\ ~(Len(response.items) < per_page)
    /\ ~(page * PerPageMax >= SearchCap)
    /\ repos' = repos \o response.items
    /\ ~(Len(repos') >= total_count)
    /\ page' = page + 1
    /\ pc' = "loop"
    /\ UNCHANGED <<fn, top_n, ranking, requested, per_page, total_count, response,
                   fetched, requests>>
    /\ UNCHANGED <<resolverVars, visitVars, regexVars, scanVars, moduleVars, threadVars,
                   batchVars, processVars>>

\* len(repos) >= requested: return repos[:requested], total_count
FetchReturn ==
    /\ fn = "fetch_top_repositories" /\ pc = "loop"
    /\ ~(Len(repos) < requested)
    /\ fetched' = FetchResult(repos, requested)
    /\ pc' = "done"
    /\ UNCHANGED <<fn, top_n, ranking, requested, repos, page, per_page, total_count,
                   response, requests>>
    /\ UNCHANGED <<resolverVars, visitVars, regexVars, scanVars, moduleVars, threadVars,
                   batchVars, processVars>>

InitFetch ==
    /\ fn = "fetch_top_repositories"
    /\ pc = "loop"
    /\ top_n \in TopNs
    /\ ranking \in Rankings
    /\ requested = Max({1, Min({top_n, SearchCap})})
    /\ repos = <<>>
    /\ page = 1
    /\ per_page = 0
    /\ total_count = 0
    /\ response = [total_count |-> 0, items |-> <<>>]
    /\ fetched = <<>>
    /\ requests = 0
    /\ IdleProcess
    /\ total = 0
    /\ batch_targets = <<>>
    /\ chunk_size = 0
    /\ targets = <<>>
    /\ target_no = 1
    /\ prev = 0
    /\ ranges = <<>>
    /\ lines = <<>>
    /\ start_line = 1
    /\ i = 0
    /\ k = 1
    /\ depth = 0
    /\ seen_open = FALSE
    /\ result = 0
    /\ parsed = "ok"
    /\ tree = NoTree
    /\ stack = <<>>
    /\ scope = <<>>
    /\ functions = <<>>
    /\ patterns = <<>>
    /\ kind = ""
    /\ line_no = 1
    /\ pat_no = 1
    /\ out = <<>>
    /\ archive = <<>>
    /\ collect_body = FALSE
    /\ file_no = 1
    /\ scan_pc = "idle"
    /\ extracted_funcs = <<>>
    /\ hit_no = 1
    /\ funcs = <<>>
    /\ extractors = EXTRACTORS
    /\ cur = 1
    /\ frames = <<>>
    /\ returned = <<>>

NextFetch ==
    \/ FetchRequest
    \/ FetchEmpty
    \/ FetchShort
    \/ FetchCap
    \/ FetchAll
    \/ FetchNextPage
    \/ FetchReturn

SpecFetch == InitFetch /\ [][NextFetch]_vars

\* C20: against the ranked search API, fetch_top_repositories(top_n) returns
\* the first min(clamp(top_n, 1, 1000), total_count) repositories of the
\* ranking in rank order, none twice and none left out.
FetchReturnsTopOfRanking ==
    (fn = "fetch_top_repositories" /\ pc = "done") =>
        fetched = Ranks(1, Min({Max({1, Min({top_n, SearchCap})}), ranking}))

----------------------------------------------------------------------------
(* gf_client.py: fetch_top_repositories against a search API that answers   *)
(* every request but is free in what it answers: any number of items (none, *)
(* fewer than per_page, per_page, more than per_page) and any total_count,  *)
(* which may differ from one answer to the next.                            *)

\* the item counts an answer to a request for n items may carry
ItemCounts(n) == {0, n - 1, n, n + 1}

\* the values of total_count an answer may carry
TotalCounts == {0, 150, 5000}

\* the loop is entered: the next page is requested, the API answers as it likes
FetchRequestAny ==
    /\ fn = "fetch_top_repositories" /\ pc = "loop"
    /\ Len(repos) < requested
    /\ per_page' = Min({PerPageMax, requested - Len(repos)})
    /\ \E n \in ItemCounts(per_page'), tc \in TotalCounts :
           response' = [total_count |-> tc,
                        items |-> Ranks((page - 1) * PerPageMax + 1,
                                        (page - 1) * PerPageMax + n)]
    /\ total_count' = IF total_count = 0 THEN response'.total_count ELSE total_count
    /\ requests' = requests + 1
    /\ pc' = "response"
    /\ UNCHANGED <<fn, top_n, ranking, requested, repos, page, fetched>>
    /\ UNCHANGED <<resolverVars, visitVars, regexVars, scanVars, moduleVars, threadVars,
                   batchVars, processVars>>

InitFetchAny ==
    /\ fn = "fetch_top_repositories"
    /\ pc = "loop"
    /\ top_n \in TopNs
    /\ ranking = 0
    /\ requested = Max({1, Min({top_n, SearchCap})})
    /\ repos = <<>>
    /\ page = 1
    /\ per_page = 0
    /\ total_count = 0
    /\ response = [total_count |-> 0, items |-> <<>>]
    /\ fetched = <<>>
    /\ requests = 0
    /\ IdleProcess
    /\ total = 0
    /\ batch_targets = <<>>
    /\ chunk_size = 0
    /\ targets = <<>>
    /\ target_no = 1
    /\ prev = 0
    /\ ranges = <<>>
    /\ lines = <<>>
    /\ start_line = 1
    /\ i = 0
    /\ k = 1
    /\ depth = 0
    /\ seen_open = FALSE
    /\ result = 0
    /\ parsed = "ok"
    /\ tree = NoTree
    /\ stack = <<>>
    /\ scope = <<>>
    /\ functions = <<>>
    /\ patterns = <<>>
    /\ kind = ""
    /\ line_no = 1
    /\ pat_no = 1
    /\ out = <<>>
    /\ archive = <<>>
    /\ collect_body = FALSE
    /\ file_no = 1
    /\ scan_pc = "idle"
    /\ extracted_funcs = <<>>
    /\ hit_no = 1
    /\ funcs = <<>>
    /\ extractors = EXTRACTORS
    /\ cur = 1
    /\ frames = <<>>
    /\ returned = <<>>

NextFetchAny ==
    \/ FetchRequestAny
    \/ FetchEmpty
    \/ FetchShort
    \/ FetchCap
    \/ FetchAll
    \/ FetchNextPage
    \/ FetchReturn

\* request_json returns or raises in finite time and the loop body has no
\* other wait, so a call that can take a step takes it
SpecFetchAny == InitFetchAny /\ [][NextFetchAny]_vars /\ WF_vars(NextFetchAny)

\* the page limit of the loop: page * 100 >= 1000 at page 10
MaxPages == 10

\* C21: whatever the search API answers, fetch_top_repositories returns: it
\* calls request_json at most 10 times, it requests a further page only after
\* an answer that was neither empty nor shorter than per_page, and the list
\* it returns has at most clamp(top_n, 1, 1000) entries.
FetchTerminates ==
    /\ [](requests <= MaxPages)
    /\ [](pc = "done" => Len(fetched) <= Max({1, Min({top_n, SearchCap})}))
    /\ [][(requests' = requests + 1 /\ requests >= 1) =>
               (response.items # <<>> /\ Len(response.items) >= per_page)]_vars
    /\ <>(pc = "done")

\* ten full pages were requested and the call returned 1000 repositories
FetchTerminatesWitness ==
    /\ fn = "fetch_top_repositories" /\ pc = "done"
    /\ ranking = 0
    /\ requests = MaxPages
    /\ Len(fetched) = SearchCap

----------------------------------------------------------------------------
(* runner.py: _process_repositories. repos is the list fetch_top_repositories *)
(* returned (a repository is its rank, so the entries are distinct); start    *)
(* and end are what _batch_ranges and _run_subset pass: 0 <= start < end <=   *)
(* len(repos). How _scan_repository ends for a repository is fixed by the     *)
(* repository: it returns with a function count, it catches HTTPError,        *)
(* URLError or BadZipFile and returns with funcs = [], or another exception   *)
(* leaves it. In the pooled path the calls run on at most `workers` threads   *)
(* and as_completed yields the futures in the order they finish.              *)

ScanOutcomes ==
    { [how |-> "ok", count |-> 2],
      [how |-> "caught", count |-> 0],
      [how |-> "raises", count |-> 0] }

\* an enumeration that starts at start
FirstOffsetZeroBased(s) == s

\* enumerate(selected, start=start + 1)
FirstOffset(s) == s + 1

\* the repository enumerate pairs with `off`
RepoAt(off) == selected[off - FirstOffset(first) + 1]

\* enumerate(selected, ...) is exhausted
Exhausted == offset - FirstOffset(first) + 1 > Len(selected)

\* _scan_repository(idx, repo, ...) is called
Scan(sc, call) ==
    IF call \in DOMAIN sc THEN [sc EXCEPT ![call] = @ + 1] ELSE sc @@ (call :> 1)

\* workers == 1: one pass of the for loop
SequentialScan ==
    /\ fn = "_process_repositories" /\ pc = "sequential"
    /\ ~Exhausted
    /\ scans' = Scan(scans, <<offset, RepoAt(offset)>>)
    /\ IF outcome[RepoAt(offset)].how = "raises"
       THEN /\ pc' = "raised"
            /\ UNCHANGED <<offset, processed, function_count>>
       ELSE /\ processed' = processed + 1
            /\ function_count' = function_count + outcome[RepoAt(offset)].count
            /\ offset' = offset + 1
            /\ pc' = pc
    /\ UNCHANGED <<fn, first, last, workers, selected, outcome, queue, running, completed>>
    /\ UNCHANGED <<resolverVars, visitVars, regexVars, scanVars, moduleVars, threadVars,
                   batchVars, fetchVars>>

\* workers == 1: return processed, function_count
SequentialReturn ==
    /\ fn = "_process_repositories" /\ pc = "sequential"
    /\ Exhausted
    /\ pc' = "done"
    /\ UNCHANGED <<fn, processVars>>
    /\ UNCHANGED <<resolverVars, visitVars, regexVars, scanVars, moduleVars, threadVars,
                   batchVars, fetchVars>>

\* executor.submit(_scan_repository, offset, repo, ...) for the next pair
PoolSubmit ==
    /\ fn = "_process_repositories" /\ pc = "submit"
    /\ ~Exhausted
    /\ queue' = Append(queue, <<offset, RepoAt(offset)>>)
    /\ offset' = offset + 1
    /\ UNCHANGED <<fn, pc, first, last, workers, selected, outcome, running, completed,
                   scans, processed, function_count>>
    /\ UNCHANGED <<resolverVars, visitVars, regexVars, scanVars, moduleVars, threadVars,
                   batchVars, fetchVars>>

\* the dict of futures is built: for future in as_completed(futures)
PoolSubmitted ==
    /\ fn = "_process_repositories" /\ pc = "submit"
    /\ Exhausted
    /\ pc' = "as_completed"
    /\ UNCHANGED <<fn, processVars>>
    /\ UNCHANGED <<resolverVars, visitVars, regexVars, scanVars, moduleVars, threadVars,
                   batchVars, fetchVars>>

\* the executor is open
InPool == fn = "_process_repositories" /\ pc \in {"submit", "as_completed", "exit", "exit_raising"}

\* a free worker thread takes the oldest submitted call and calls _scan_repository
WorkerStart ==
    /\ InPool
    /\ queue # <<>>
    /\ Cardinality(running) < workers
    /\ running' = running \cup {Head(queue)}
    /\ queue' = Tail(queue)
    /\ scans' = Scan(scans, Head(queue))
    /\ UNCHANGED <<fn, pc, first, last, workers, selected, outcome, offset, completed,
                   processed, function_count>>
    /\ UNCHANGED <<resolverVars, visitVars, regexVars, scanVars, moduleVars, threadVars,
                   batchVars, fetchVars>>

\* a call of _scan_repository ends: its future is done
WorkerFinish ==
    /\ InPool
    /\ \E call \in running :
           /\ running' = running \ {call}
           /\ completed' = completed \cup {call}
    /\ UNCHANGED <<fn, pc, first, last, workers, selected, outcome, offset, queue, scans,
                   processed, function_count>>
    /\ UNCHANGED <<resolverVars, visitVars, regexVars, scanVars, moduleVars, threadVars,
                   batchVars, fetchVars>>

\* as_completed yields a finished future: idx, result, count = future.result()
PoolYield ==
    /\ fn = "_process_repositories" /\ pc = "as_completed"
    /\ \E call \in completed :
           /\ completed' = completed \ {call}
           /\ IF outcome[call[2]].how = "raises"
              THEN /\ pc' = "exit_raising"
                   /\ UNCHANGED <<processed, function_count>>
              ELSE /\ processed' = processed + 1
                   /\ function_count' = function_count + outcome[call[2]].count
                   /\ pc' = pc
    /\ UNCHANGED <<fn, first, last, workers, selected, outcome, offset, queue, running,
                   scans>>
    /\ UNCHANGED <<resolverVars, visitVars, regexVars, scanVars, moduleVars, threadVars,
                   batchVars, fetchVars>>

\* as_completed has yielded every future: the with block is left
PoolExhausted ==
    /\ fn = "_process_repositories" /\ pc = "as_completed"
    /\ processed = Len(selected)
    /\ pc' = "exit"
    /\ UNCHANGED <<fn, processVars>>
    /\ UNCHANGED <<resolverVars, visitVars, regexVars, scanVars, moduleVars, threadVars,
                   batchVars, fetchVars>>

\* ThreadPoolExecutor.__exit__: shutdown(wait=True) returns once every
\* submitted call has run; then return processed, function_count, or the
\* exception of future.result() goes on to the caller
PoolShutdown ==
    /\ fn = "_process_repositories" /\ pc \in {"exit", "exit_raising"}
    /\ queue = <<>>
    /\ running = {}
    /\ pc' = IF pc = "exit" THEN "done" ELSE "raised"
    /\ UNCHANGED <<fn, processVars>>
    /\ UNCHANGED <<resolverVars, visitVars, regexVars, scanVars, moduleVars, threadVars,
                   batchVars, fetchVars>>

InitProcess ==
    /\ fn = "_process_repositories"
    /\ \E n \in 1..MaxRepos : repos = Ranks(1, n)
    /\ outcome \in [1..Len(repos) -> ScanOutcomes]
    /\ last \in 1..Len(repos)
    /\ first \in 0..(last - 1)
    /\ \E args_workers \in 0..MaxWorkers : workers = Max({1, args_workers})
    /\ selected = PySlice(repos, first, last)
    /\ processed = 0
    /\ function_count = 0
    /\ offset = FirstOffset(first)
    /\ pc = IF workers = 1 THEN "sequential" ELSE "submit"
    /\ queue = <<>>
    /\ running = {}
    /\ completed = {}
    /\ scans = <<>>
    /\ top_n = 0
    /\ ranking = 0
    /\ requested = 0
    /\ page = 1
    /\ per_page = 0
    /\ total_count = 0
    /\ response = [total_count |-> 0, items |-> <<>>]
    /\ fetched = <<>>
    /\ requests = 0
    /\ total = 0
    /\ batch_targets = <<>>
    /\ chunk_size = 0
    /\ targets = <<>>
    /\ target_no = 1
    /\ prev = 0
    /\ ranges = <<>>
    /\ lines = <<>>
    /\ start_line = 1
    /\ i = 0
    /\ k = 1
    /\ depth = 0
    /\ seen_open = FALSE
    /\ result = 0
    /\ parsed = "ok"
    /\ tree = NoTree
    /\ stack = <<>>
    /\ scope = <<>>
    /\ functions = <<>>
    /\ patterns = <<>>
    /\ kind = ""
    /\ line_no = 1
    /\ pat_no = 1
    /\ out = <<>>
    /\ archive = <<>>
    /\ collect_body = FALSE
    /\ file_no = 1
    /\ scan_pc = "idle"
    /\ extracted_funcs = <<>>
    /\ hit_no = 1
    /\ funcs = <<>>
    /\ extractors = EXTRACTORS
    /\ cur = 1
    /\ frames = <<>>
    /\ returned = <<>>

NextProcess ==
    \/ SequentialScan
    \/ SequentialReturn
    \/ PoolSubmit
    \/ PoolSubmitted
    \/ WorkerStart
    \/ WorkerFinish
    \/ PoolYield
    \/ PoolExhausted
    \/ PoolShutdown

SpecProcess == InitProcess /\ [][NextProcess]_vars

\* the calls the claim expects: repos[start + j - 1] with index start + j
ExpectedScans == {<<first + j, repos[first + j]>> : j \in 1..(last - first)}

\* the expected calls up to and including the first one that raises
ScansUntilRaise ==
    {<<first + j, repos[first + j]>> : j \in
        {j \in 1..(last - first) :
            \A h \in 1..(j - 1) : outcome[repos[first + h]].how # "raises"}}

\* the sum of the function counts of repos[start:end]
RECURSIVE SumCounts(_)
SumCounts(rs) ==
    IF rs = <<>> THEN 0 ELSE outcome[Head(rs)].count + SumCounts(Tail(rs))

\* some scan of repos[start:end] raises
SomeScanRaises == \E j \in 1..(last - first) : outcome[repos[first + j]].how = "raises"

\* the call has returned or raised
ProcessEnded == fn = "_process_repositories" /\ pc \in {"done", "raised"}

\* C22 as stated: when _process_repositories ends, in either path, each
\* repository of repos[start:end] has been scanned exactly once with
\* indices start+1 .. end; when no scan raises it returns
\* processed = end - start and function_count = the sum of the counts.
ProcessScansEachOnce ==
    ProcessEnded =>
        /\ DOMAIN scans = ExpectedScans
        /\ \A call \in DOMAIN scans : scans[call] = 1
        /\ (~SomeScanRaises => pc = "done")
        /\ (pc = "done" =>
               (processed = last - first /\ function_count = SumCounts(selected)))

\* C22: _process_repositories scans each repository of repos[start:end] at
\* most once, with index start + its position. When it ends, every one has
\* been scanned exactly once if no scan raised or the pool was used
\* (workers > 1, whatever the order of completion); in the sequential path
\* a raising scan ends the call and the repositories after it are not
\* scanned. When no scan raises the call returns, in both paths,
\* processed = end - start and function_count = the sum of the counts.
ProcessScansEachAtMostOnce ==
    fn = "_process_repositories" =>
        /\ DOMAIN scans \subseteq ExpectedScans
        /\ \A call \in DOMAIN scans : scans[call] = 1
        /\ (ProcessEnded /\ (workers > 1 \/ pc = "done")) => DOMAIN scans = ExpectedScans
        /\ (ProcessEnded /\ workers = 1 /\ pc = "raised") => DOMAIN scans = ScansUntilRaise
        /\ (ProcessEnded /\ ~SomeScanRaises) => pc = "done"
        /\ (pc = "done" =>
               (processed = last - first /\ function_count = SumCounts(selected)))

\* a pooled call over two repositories that do not start the list has
\* returned their count
ProcessScansEachAtMostOnceWitness ==
    /\ fn = "_process_repositories" /\ pc = "done"
    /\ workers = 2
    /\ first = 1 /\ last = 3
    /\ processed = 2
    /\ function_count = 4
    /\ DOMAIN scans = {<<2, 2>>, <<3, 3>>}

====
